---- MODULE Spec2Model ----
(***************************************************************************)
(* A model of the AES block cipher, its key schedule, the CBC and CTR      *)
(* modes of operation and the PKCS#7 padding scheme of coursera-crypto.    *)
(*                                                                         *)
(* Conventions.  A u8 is a number in 0..255.  Rust arrays, slices and Vecs *)
(* are TLA+ sequences, so the Rust index i is the TLA+ index i+1.  A       *)
(* GFByte is its inner byte, a GFWord a 4-tuple of bytes, a State a        *)
(* 4-tuple of words (column-major).  A call that can panic returns a       *)
(* record [ok |-> BOOLEAN, val |-> ...]; an Option is a record             *)
(* [some |-> BOOLEAN, val |-> ...].                                        *)
(***************************************************************************)
EXTENDS Integers, Sequences, FiniteSets, TLC

(***************************************************************************)
(* u8 arithmetic                                                           *)
(***************************************************************************)

\* The bitwise XOR of two unsigned numbers (Rust's ^ on u8), bit by bit.
RECURSIVE xor(_, _)
xor(a, b) ==
  IF a = 0 THEN b
  ELSE IF b = 0 THEN a
  ELSE ((a + b) % 2) + 2 * xor(a \div 2, b \div 2)

\* Rust evaluates a value before it goes on: `e`, once `v` is computed.
strict(v, e) == IF v = v THEN e ELSE e

(***************************************************************************)
(* blocks.rs, lib.rs                                                       *)
(***************************************************************************)

BLOCK_LEN_128_U8 == 128 \div 8

Panicked == [ok |-> FALSE, val |-> <<>>]
Returned(v) == [ok |-> TRUE, val |-> v]

\* The outcome of a call that returns an Option<Vec<u8>> or panics.
None == [tag |-> "None", val |-> <<>>]
Some(v) == [tag |-> "Some", val |-> v]
Panic == [tag |-> "panic", val |-> <<>>]
Pending == [tag |-> "pending", val |-> <<>>]

\* slice.chunks(n).next(): the first min(n, len) elements, and the rest.
chunk_of(slice, n) ==
  IF Len(slice) <= n THEN slice ELSE SubSeq(slice, 1, n)

rest_of(slice, n) ==
  IF Len(slice) <= n THEN <<>> ELSE SubSeq(slice, n + 1, Len(slice))

\* as_block_128u8: the slice as a block; the assert_eq! on its length.
as_block_128u8(slice) ==
  IF Len(slice) = BLOCK_LEN_128_U8 THEN Returned(slice) ELSE Panicked

\* acc[i] ^= operand[i] over the zip of the two slices; the caller holds
\* Len(acc) <= Len(operand), which the assert! of the function demands.
RECURSIVE xor_zip(_, _)
xor_zip(acc, operand) ==
  IF acc = <<>> \/ operand = <<>> THEN <<>>
  ELSE <<xor(Head(acc), Head(operand))>> \o xor_zip(Tail(acc), Tail(operand))

inplace_xor_bytes(accumulator, operand) ==
  IF Len(accumulator) <= Len(operand)
    THEN Returned(xor_zip(accumulator, operand))
    ELSE Panicked

(***************************************************************************)
(* aes/gf_byte.rs: bytes as elements of GF(2^8)                            *)
(***************************************************************************)

GFByteAdd(a, b) == xor(a, b)

\* A mutant of mul_x: the reduction is by 0x1d instead of 0x1b.
mul_x_reduced_by_1d(b) ==
  LET high_order_bit == b \div 128
      shifted_b == (b * 2) % 256
      conditional_sub == high_order_bit * 29
  IN  xor(shifted_b, conditional_sub)

\* The closure mul_x: multiplication by x, reduced by 0x1b.
mul_x(b) ==
  LET high_order_bit == b \div 128
      shifted_b == (b * 2) % 256
      conditional_sub == high_order_bit * 27
  IN  xor(shifted_b, conditional_sub)

\* A mutant of mul_loop: the multiplier is doubled before it is added.
RECURSIVE mul_loop_doubling_first(_, _, _, _)
mul_loop_doubling_first(accumulator, remainder, multiplier, n) ==
  IF n = 0 THEN accumulator
  ELSE LET low_order_bit == remainder % 2
           doubled == mul_x(multiplier)
       IN  mul_loop_doubling_first(xor(accumulator, doubled * low_order_bit),
                                   remainder \div 2, doubled, n - 1)

\* The body of the loop "for _ in 0..8", n iterations left.
RECURSIVE mul_loop(_, _, _, _)
mul_loop(accumulator, remainder, multiplier, n) ==
  IF n = 0 THEN accumulator
  ELSE LET low_order_bit == remainder % 2
       IN  mul_loop(xor(accumulator, multiplier * low_order_bit),
                    remainder \div 2, mul_x(multiplier), n - 1)

\* The u8 operations of mul_x that can overflow: the shifts with their
\* distances and results, the product with the value it has in the integers.
mul_x_operations(b) ==
  { [op |-> ">>", by |-> 7, value |-> b \div 128],
    [op |-> "<<", by |-> 1, value |-> (b * 2) % 256],
    [op |-> "*", by |-> 0, value |-> (b \div 128) * 27] }

\* The same for n iterations of the loop of mul.
RECURSIVE mul_loop_operations(_, _, _)
mul_loop_operations(remainder, multiplier, n) ==
  IF n = 0 THEN {}
  ELSE { [op |-> "*", by |-> 0, value |-> multiplier * (remainder % 2)],
         [op |-> ">>", by |-> 1, value |-> remainder \div 2] }
         \cup mul_x_operations(multiplier)
         \cup mul_loop_operations(remainder \div 2, mul_x(multiplier), n - 1)

GFByteMul_operations(b1, b2) == mul_loop_operations(b2, b1, 8)

\* A mutant of GFByteMul: the loop stops one iteration early.
GFByteMul_in_seven_iterations(b1, b2) == mul_loop(0, b2, b1, 7)

GFByteMul(b1, b2) == mul_loop(0, b2, b1, 8)

GFByte_apply_s_box(byte, sb) == sb[byte + 1]

(***************************************************************************)
(* block_ciphers/aes/mod.rs: the S-boxes                                   *)
(***************************************************************************)

ENC_SBOX ==
  <<
     99, 124, 119, 123, 242, 107, 111, 197,  48,   1, 103,  43, 254, 215, 171, 118,
    202, 130, 201, 125, 250,  89,  71, 240, 173, 212, 162, 175, 156, 164, 114, 192,
    183, 253, 147,  38,  54,  63, 247, 204,  52, 165, 229, 241, 113, 216,  49,  21,
      4, 199,  35, 195,  24, 150,   5, 154,   7,  18, 128, 226, 235,  39, 178, 117,
      9, 131,  44,  26,  27, 110,  90, 160,  82,  59, 214, 179,  41, 227,  47, 132,
     83, 209,   0, 237,  32, 252, 177,  91, 106, 203, 190,  57,  74,  76,  88, 207,
    208, 239, 170, 251,  67,  77,  51, 133,  69, 249,   2, 127,  80,  60, 159, 168,
     81, 163,  64, 143, 146, 157,  56, 245, 188, 182, 218,  33,  16, 255, 243, 210,
    205,  12,  19, 236,  95, 151,  68,  23, 196, 167, 126,  61, 100,  93,  25, 115,
     96, 129,  79, 220,  34,  42, 144, 136,  70, 238, 184,  20, 222,  94,  11, 219,
    224,  50,  58,  10,  73,   6,  36,  92, 194, 211, 172,  98, 145, 149, 228, 121,
    231, 200,  55, 109, 141, 213,  78, 169, 108,  86, 244, 234, 101, 122, 174,   8,
    186, 120,  37,  46,  28, 166, 180, 198, 232, 221, 116,  31,  75, 189, 139, 138,
    112,  62, 181, 102,  72,   3, 246,  14,  97,  53,  87, 185, 134, 193,  29, 158,
    225, 248, 152,  17, 105, 217, 142, 148, 155,  30, 135, 233, 206,  85,  40, 223,
    140, 161, 137,  13, 191, 230,  66, 104,  65, 153,  45,  15, 176,  84, 187,  22
  >>

DEC_SBOX ==
  <<
     82,   9, 106, 213,  48,  54, 165,  56, 191,  64, 163, 158, 129, 243, 215, 251,
    124, 227,  57, 130, 155,  47, 255, 135,  52, 142,  67,  68, 196, 222, 233, 203,
     84, 123, 148,  50, 166, 194,  35,  61, 238,  76, 149,  11,  66, 250, 195,  78,
      8,  46, 161, 102,  40, 217,  36, 178, 118,  91, 162,  73, 109, 139, 209,  37,
    114, 248, 246, 100, 134, 104, 152,  22, 212, 164,  92, 204,  93, 101, 182, 146,
    108, 112,  72,  80, 253, 237, 185, 218,  94,  21,  70,  87, 167, 141, 157, 132,
    144, 216, 171,   0, 140, 188, 211,  10, 247, 228,  88,   5, 184, 179,  69,   6,
    208,  44,  30, 143, 202,  63,  15,   2, 193, 175, 189,   3,   1,  19, 138, 107,
     58, 145,  17,  65,  79, 103, 220, 234, 151, 242, 207, 206, 240, 180, 230, 115,
    150, 172, 116,  34, 231, 173,  53, 133, 226, 249,  55, 232,  28, 117, 223, 110,
     71, 241,  26, 113,  29,  41, 197, 137, 111, 183,  98,  14, 170,  24, 190,  27,
    252,  86,  62,  75, 198, 210, 121,  32, 154, 219, 192, 254, 120, 205,  90, 244,
     31, 221, 168,  51, 136,   7, 199,  49, 177,  18,  16,  89,  39, 128, 236,  95,
     96,  81, 127, 169,  25, 181,  74,  13,  45, 229, 122, 159, 147, 201, 156, 239,
    160, 224,  59,  77, 174,  42, 245, 176, 200, 235, 187,  60, 131,  83, 153,  97,
     23,  43,   4, 126, 186, 119, 214,  38, 225, 105,  20,  99,  85,  33,  12, 125
  >>

(***************************************************************************)
(* block_ciphers/aes/gf_word.rs: 4-byte words as polynomials over GF(2^8)  *)
(***************************************************************************)

GFWord_new(b0, b1, b2, b3) == <<b0, b1, b2, b3>>

GFWord_zero == GFWord_new(0, 0, 0, 0)

\* From<u32>: the u32 is written as its two 16-bit halves (hi, lo), word =
\* hi * 0x10000 + lo, because a u32 exceeds the integers TLC computes with.
\* (word & 0xff000000) / 0x1000000 is then hi / 0x100, and so on.
GFWord_from(hi, lo) ==
  GFWord_new(hi \div 256, hi % 256, lo \div 256, lo % 256)

GFWordAdd(a, b) ==
  <<GFByteAdd(a[1], b[1]), GFByteAdd(a[2], b[2]),
    GFByteAdd(a[3], b[3]), GFByteAdd(a[4], b[4])>>

\* a[i] of the source is a[i+1] here.
GFWordMul(a, b) ==
  LET add4(p, q, r, s) == GFByteAdd(GFByteAdd(GFByteAdd(p, q), r), s)
  IN  <<add4(GFByteMul(a[1], b[1]), GFByteMul(a[4], b[2]),
             GFByteMul(a[3], b[3]), GFByteMul(a[2], b[4])),
        add4(GFByteMul(a[2], b[1]), GFByteMul(a[1], b[2]),
             GFByteMul(a[4], b[3]), GFByteMul(a[3], b[4])),
        add4(GFByteMul(a[3], b[1]), GFByteMul(a[2], b[2]),
             GFByteMul(a[1], b[3]), GFByteMul(a[4], b[4])),
        add4(GFByteMul(a[4], b[1]), GFByteMul(a[3], b[2]),
             GFByteMul(a[2], b[3]), GFByteMul(a[1], b[4]))>>

GFWord_apply_s_box(w, sb) ==
  <<GFByte_apply_s_box(w[1], sb), GFByte_apply_s_box(w[2], sb),
    GFByte_apply_s_box(w[3], sb), GFByte_apply_s_box(w[4], sb)>>

\* A mutant of rot_word: the bytes rotate the other way.
rot_word_backwards(w) == <<w[4], w[1], w[2], w[3]>>

rot_word(w) == <<w[2], w[3], w[4], w[1]>>

sub_word(w) == GFWord_apply_s_box(w, ENC_SBOX)

(***************************************************************************)
(* aes/state.rs: the 4x4 state and its transformations                     *)
(***************************************************************************)

N_B == 4

State_from(input) ==
  <<GFWord_new(input[1],  input[2],  input[3],  input[4]),
    GFWord_new(input[5],  input[6],  input[7],  input[8]),
    GFWord_new(input[9],  input[10], input[11], input[12]),
    GFWord_new(input[13], input[14], input[15], input[16])>>

\* A mutant of State_into: the bytes are read row by row.
State_into_row_by_row(words) ==
  LET w1 == words[1]
      w2 == words[2]
      w3 == words[3]
      w4 == words[4]
  IN  <<w1[1], w2[1], w3[1], w4[1], w1[2], w2[2], w3[2], w4[2],
        w1[3], w2[3], w3[3], w4[3], w1[4], w2[4], w3[4], w4[4]>>

State_into(words) ==
  LET w1 == words[1]
      w2 == words[2]
      w3 == words[3]
      w4 == words[4]
  IN  <<w1[1], w1[2], w1[3], w1[4], w2[1], w2[2], w2[3], w2[4],
        w3[1], w3[2], w3[3], w3[4], w4[1], w4[2], w4[3], w4[4]>>

State_apply_s_box(words, sb) ==
  <<GFWord_apply_s_box(words[1], sb), GFWord_apply_s_box(words[2], sb),
    GFWord_apply_s_box(words[3], sb), GFWord_apply_s_box(words[4], sb)>>

sub_bytes(words) == State_apply_s_box(words, ENC_SBOX)

\* A mutant of inv_sub_bytes: the encryption S-box is applied again.
inv_sub_bytes_with_enc_sbox(words) == State_apply_s_box(words, ENC_SBOX)

inv_sub_bytes(words) == State_apply_s_box(words, DEC_SBOX)

\* self.words[w][row] = v, for the source's indices w and row.
set_byte(words, w, row, v) == [words EXCEPT ![w + 1][row + 1] = v]

RECURSIVE shift_row_left(_, _, _)
RECURSIVE shift_row_right(_, _, _)

shift_row_left(words, row, amount) ==
  LET wrapped_amount == amount % N_B
  IN  CASE wrapped_amount = 0 -> words
        [] wrapped_amount = 1 ->
             LET carry1 == words[1][row + 1]
                 s0 == set_byte(words, 0, row, words[2][row + 1])
                 s1 == set_byte(s0, 1, row, s0[3][row + 1])
                 s2 == set_byte(s1, 2, row, s1[4][row + 1])
             IN  set_byte(s2, 3, row, carry1)
        [] wrapped_amount = 2 ->
             LET carry2 == <<words[1][row + 1], words[2][row + 1]>>
                 s0 == set_byte(words, 0, row, words[3][row + 1])
                 s1 == set_byte(s0, 1, row, s0[4][row + 1])
                 s2 == set_byte(s1, 2, row, carry2[1])
             IN  set_byte(s2, 3, row, carry2[2])
        [] wrapped_amount = 3 -> shift_row_right(words, row, 1)

shift_row_right(words, row, amount) ==
  LET wrapped_amount == amount % N_B
  IN  CASE wrapped_amount = 0 -> words
        [] wrapped_amount = 1 ->
             LET carry1 == words[4][row + 1]
                 s3 == set_byte(words, 3, row, words[3][row + 1])
                 s2 == set_byte(s3, 2, row, s3[2][row + 1])
                 s1 == set_byte(s2, 1, row, s2[1][row + 1])
             IN  set_byte(s1, 0, row, carry1)
        [] wrapped_amount = 2 -> shift_row_left(words, row, 2)
        [] wrapped_amount = 3 -> shift_row_left(words, row, 1)

\* A mutant of shift_rows: every row but the first is shifted by one byte.
shift_rows_by_one(words) ==
  shift_row_left(shift_row_left(shift_row_left(shift_row_left(
    words, 0, 0), 1, 1), 2, 1), 3, 1)

\* for i in 0..4 { self.shift_row_left(i, i) }
shift_rows(words) ==
  shift_row_left(shift_row_left(shift_row_left(shift_row_left(
    words, 0, 0), 1, 1), 2, 2), 3, 3)

\* A mutant of inv_shift_rows: the rows are shifted left again.
inv_shift_rows_to_the_left(words) ==
  shift_row_left(shift_row_left(shift_row_left(shift_row_left(
    words, 0, 0), 1, 1), 2, 2), 3, 3)

\* for i in 0..4 { self.shift_row_right(i, i) }
inv_shift_rows(words) ==
  shift_row_right(shift_row_right(shift_row_right(shift_row_right(
    words, 0, 0), 1, 1), 2, 2), 3, 3)

mix_columns(words) ==
  LET a == GFWord_new(2, 1, 1, 3)
  IN  <<GFWordMul(words[1], a), GFWordMul(words[2], a),
        GFWordMul(words[3], a), GFWordMul(words[4], a)>>

\* A mutant of inv_mix_columns: the coefficients of inv_a in reverse order.
inv_mix_columns_by_reversed_word(words) ==
  LET inv_a == GFWord_new(11, 13, 9, 14)
  IN  <<GFWordMul(words[1], inv_a), GFWordMul(words[2], inv_a),
        GFWordMul(words[3], inv_a), GFWordMul(words[4], inv_a)>>

inv_mix_columns(words) ==
  LET inv_a == GFWord_new(14, 9, 13, 11)
  IN  <<GFWordMul(words[1], inv_a), GFWordMul(words[2], inv_a),
        GFWordMul(words[3], inv_a), GFWordMul(words[4], inv_a)>>

\* A mutant of add_round_key: column i is given the key word after its own.
add_round_key_with_next_word(words, round_keys) ==
  LET column(i) == IF i <= Len(round_keys)
                     THEN GFWordAdd(words[i],
                                    round_keys[(i % Len(round_keys)) + 1])
                     ELSE words[i]
  IN  <<column(1), column(2), column(3), column(4)>>

\* The zip of the 4 state words with the round-key slice: a column that has
\* no key word is left as it is.  Every caller in the cipher driver passes a
\* slice of exactly N_B words.
add_round_key(words, round_keys) ==
  LET column(i) == IF i <= Len(round_keys)
                     THEN GFWordAdd(words[i], round_keys[i])
                     ELSE words[i]
  IN  <<column(1), column(2), column(3), column(4)>>

\* debug_assert_eq!(left, right): whether execution goes on.  The macro
\* compares only in a build with debug assertions.
debug_assert_eq(left, right, debug_assertions) ==
  debug_assertions => left = right

\* State::add_round_key as a call: the assertion, then the zip.
State_add_round_key(words, round_keys, debug_assertions) ==
  IF debug_assert_eq(Len(round_keys), N_B, debug_assertions)
    THEN Returned(add_round_key(words, round_keys))
    ELSE Panicked

(***************************************************************************)
(* block_ciphers/aes/mod.rs: key expansion                                 *)
(***************************************************************************)

r_con ==
  <<GFWord_zero,             GFWord_new(1, 0, 0, 0),
    GFWord_new(2, 0, 0, 0),  GFWord_new(4, 0, 0, 0),
    GFWord_new(8, 0, 0, 0),  GFWord_new(16, 0, 0, 0),
    GFWord_new(32, 0, 0, 0), GFWord_new(64, 0, 0, 0),
    GFWord_new(128, 0, 0, 0), GFWord_new(27, 0, 0, 0),
    GFWord_new(54, 0, 0, 0)>>

\* for i in 0..n_k: the words of the key; w holds the words 0..i-1 so far.
RECURSIVE key_words(_, _, _)
key_words(key, i, n_k) ==
  IF i >= n_k THEN <<>>
  ELSE <<GFWord_new(key[4*i + 1], key[4*i + 2], key[4*i + 3], key[4*i + 4])>>
         \o key_words(key, i + 1, n_k)

\* A mutant of r_con_index: the table is read from its entry 0 on.
r_con_index_from_zero(i, n_k) == i \div n_k - 1

\* The index of r_con[i/n_k].
r_con_index(i, n_k) == i \div n_k

\* A mutant of expand_word: no sub_word of its own for n_k > 6.
expand_word_without_sub_word(w, i, n_k) ==
  LET temp0 == w[i]
      temp == IF i % n_k = 0
                THEN GFWordAdd(sub_word(rot_word(temp0)),
                               r_con[r_con_index(i, n_k) + 1])
              ELSE temp0
  IN  GFWordAdd(w[i - n_k + 1], temp)

\* The body of the loop over i in n_k..N_B*(n_r+1): the word written to
\* w[i], w holding the words 0..i-1.
expand_word(w, i, n_k) ==
  LET temp0 == w[i]
      temp == IF i % n_k = 0
                THEN GFWordAdd(sub_word(rot_word(temp0)),
                               r_con[r_con_index(i, n_k) + 1])
              ELSE IF (n_k > 6) /\ (i % n_k = 4)
                THEN sub_word(temp0)
              ELSE temp0
  IN  GFWordAdd(w[i - n_k + 1], temp)

\* The iterations first..last-1 of the loop, in order, w holding the words
\* 0..first-1 so far.  The range is run as its first half followed by its
\* second half, which keeps the depth of evaluation logarithmic in the
\* number of iterations; the iterations and their order are the loop's.
RECURSIVE expand_range(_, _, _, _)
expand_range(w, first, last, n_k) ==
  IF first >= last THEN w
  ELSE IF last - first = 1 THEN Append(w, expand_word(w, first, n_k))
  ELSE LET middle == (first + last) \div 2
           half == expand_range(w, first, middle, n_k)
       IN  strict(half, expand_range(half, middle, last, n_k))

\* for i in n_k..N_B*(n_r+1): w holds the words 0..i-1 so far.
expand_loop(w, i, n_k, n_r) == expand_range(w, i, N_B * (n_r + 1), n_k)

\* key_expansion(key, w), w a slice of w_len words: the words written to w.
key_expansion(key, w_len) ==
  IF Len(key) % 4 # 0 THEN Panicked
  ELSE LET n_k == Len(key) \div 4
           n_r == n_k + 6
       IN  IF w_len # N_B * (n_r + 1) THEN Panicked
           ELSE Returned(expand_loop(key_words(key, 0, n_k), n_k, n_k, n_r))

key_expansion_128(key) == key_expansion(key, N_B * (10 + 1)).val

key_expansion_192(key) == key_expansion(key, N_B * (12 + 1)).val

key_expansion_256(key) == key_expansion(key, N_B * (14 + 1)).val

(***************************************************************************)
(* block_ciphers/aes/mod.rs: the cipher and its inverse                    *)
(***************************************************************************)

\* &round_keys[(round*N_B)..((round+1)*N_B)]
round_key(round_keys, round) ==
  SubSeq(round_keys, round * N_B + 1, (round + 1) * N_B)

\* for round in 1..n_r, from `round` on.
RECURSIVE cipher_rounds(_, _, _, _)
cipher_rounds(state, round_keys, round, n_r) ==
  IF round >= n_r THEN state
  ELSE LET next == add_round_key(mix_columns(shift_rows(sub_bytes(state))),
                                 round_key(round_keys, round))
       IN  strict(next, cipher_rounds(next, round_keys, round + 1, n_r))

\* A mutant of cipher_loop_continues: the range is 1..=n_r.
cipher_loop_through_n_r(round, n_r) == round <= n_r

\* for round in 1..n_r: whether the body runs for `round`.
cipher_loop_continues(round, n_r) == round < n_r

\* A mutant of cipher: the second assertion is len >= N_B instead of > N_B.
cipher_accepting_one_round_key(input_block, keys) ==
  IF Len(keys) % N_B # 0 THEN Panicked
  ELSE IF ~(Len(keys) >= N_B) THEN Panicked
  ELSE LET n_r == Len(keys) \div N_B - 1
           s0 == add_round_key(State_from(input_block), round_key(keys, 0))
           s1 == cipher_rounds(s0, keys, 1, n_r)
           s2 == add_round_key(shift_rows(sub_bytes(s1)),
                               round_key(keys, n_r))
       IN  Returned(State_into(s2))

cipher(input, round_keys) ==
  IF Len(round_keys) % N_B # 0 THEN Panicked
  ELSE IF ~(Len(round_keys) > N_B) THEN Panicked
  ELSE LET n_r == Len(round_keys) \div N_B - 1
           s0 == add_round_key(State_from(input), round_key(round_keys, 0))
           s1 == cipher_rounds(s0, round_keys, 1, n_r)
           s2 == add_round_key(shift_rows(sub_bytes(s1)),
                               round_key(round_keys, n_r))
       IN  Returned(State_into(s2))

\* for round in (1..n_r).rev(), from `round` down.
RECURSIVE inv_cipher_rounds(_, _, _)
inv_cipher_rounds(state, round_keys, round) ==
  IF round < 1 THEN state
  ELSE LET next == inv_mix_columns(
                     add_round_key(inv_sub_bytes(inv_shift_rows(state)),
                                   round_key(round_keys, round)))
       IN  strict(next, inv_cipher_rounds(next, round_keys, round - 1))

inv_cipher(input, round_keys) ==
  IF Len(round_keys) % N_B # 0 THEN Panicked
  ELSE IF ~(Len(round_keys) > N_B) THEN Panicked
  ELSE LET n_r == Len(round_keys) \div N_B - 1
           s0 == add_round_key(State_from(input), round_key(round_keys, n_r))
           s1 == inv_cipher_rounds(s0, round_keys, n_r - 1)
           s2 == add_round_key(inv_sub_bytes(inv_shift_rows(s1)),
                               round_key(round_keys, 0))
       IN  Returned(State_into(s2))


(***************************************************************************)
(* padding/pkcs7.rs: the PKCS#7 padding of a message, an iterator of       *)
(* blocks.  The iterator is the record of its three fields; raw_iterator   *)
(* is the part of the message that bytes.chunks(16) has yet to yield.      *)
(***************************************************************************)

BLOCK_SIZE_128_U8 == 128 \div 8

\* A mutant of repeat_byte: the padding bytes stay at their initial zero.
RECURSIVE repeat_zero(_, _)
repeat_zero(v, n) == IF n <= 0 THEN <<>> ELSE <<0>> \o repeat_zero(v, n - 1)

\* n copies of byte v.
RECURSIVE repeat_byte(_, _)
repeat_byte(v, n) == IF n <= 0 THEN <<>> ELSE <<v>> \o repeat_byte(v, n - 1)

\* A mutant of PKCS7Padding128u8_new: the chunks of the message are counted.
PKCS7Padding128u8_new_counting_chunks(bytes) ==
  [ raw_iterator |-> bytes,
    final_block_sent |-> FALSE,
    block_count |-> (Len(bytes) + BLOCK_SIZE_128_U8 - 1) \div BLOCK_SIZE_128_U8 ]

PKCS7Padding128u8_new(bytes) ==
  [ raw_iterator |-> bytes,
    final_block_sent |-> FALSE,
    block_count |-> Len(bytes) \div BLOCK_SIZE_128_U8 + 1 ]

\* A mutant of PKCS7Padding128u8_next: a padded chunk does not set
\* final_block_sent.
PKCS7Padding128u8_next_forgetting_the_flag(self) ==
  IF self.raw_iterator # <<>>
    THEN LET input_slice == chunk_of(self.raw_iterator, BLOCK_SIZE_128_U8)
             after == rest_of(self.raw_iterator, BLOCK_SIZE_128_U8)
             input_len == Len(input_slice)
             remaining == (BLOCK_SIZE_128_U8 - input_len) % 256
         IN  [ item |-> Some(input_slice \o
                             repeat_byte(remaining,
                                         BLOCK_SIZE_128_U8 - input_len)),
               self |-> [self EXCEPT !.raw_iterator = after] ]
    ELSE IF self.final_block_sent
      THEN [ item |-> None, self |-> self ]
      ELSE [ item |-> Some(repeat_byte(BLOCK_SIZE_128_U8, BLOCK_SIZE_128_U8)),
             self |-> [self EXCEPT !.final_block_sent = TRUE] ]

\* next(): the item returned (Some(block) or None) and the iterator after.
PKCS7Padding128u8_next(self) ==
  IF self.raw_iterator # <<>>
    THEN LET input_slice == chunk_of(self.raw_iterator, BLOCK_SIZE_128_U8)
             after == rest_of(self.raw_iterator, BLOCK_SIZE_128_U8)
             input_len == Len(input_slice)
             remaining == (BLOCK_SIZE_128_U8 - input_len) % 256
         IN  IF remaining > 0
               THEN [ item |-> Some(input_slice \o
                                    repeat_byte(remaining,
                                                BLOCK_SIZE_128_U8 - input_len)),
                      self |-> [self EXCEPT !.raw_iterator = after,
                                            !.final_block_sent = TRUE] ]
               ELSE [ item |-> Some(input_slice),
                      self |-> [self EXCEPT !.raw_iterator = after] ]
    ELSE IF self.final_block_sent
      THEN [ item |-> None, self |-> self ]
      ELSE [ item |-> Some(repeat_byte(BLOCK_SIZE_128_U8, BLOCK_SIZE_128_U8)),
             self |-> [self EXCEPT !.final_block_sent = TRUE] ]

\* size_hint(): (lower bound, upper bound).
PKCS7Padding128u8_size_hint(self) ==
  <<self.block_count, Some(self.block_count)>>

(***************************************************************************)
(* padding/merkle_damgard.rs: the Merkle-Damgard padding of a message, an  *)
(* iterator of blocks of 16 u32.  A u32 is the pair of its 16-bit halves,  *)
(* <<high, low>>; the iterator is the record of its four fields.           *)
(***************************************************************************)

BLOCK_LEN_512_U32 == 512 \div 32

\* mem::size_of::<Block512u32>()
size_of_Block512u32 == BLOCK_LEN_512_U32 * (32 \div 8)

\* a | b on integers below 2^16.
RECURSIVE bit_or(_, _)
bit_or(a, b) ==
  IF a = 0 THEN b
  ELSE IF b = 0 THEN a
  ELSE (IF a % 2 = 1 \/ b % 2 = 1 THEN 1 ELSE 0)
       + 2 * bit_or(a \div 2, b \div 2)

\* (value as u32) << shift, for a value below 2^8 and a shift below 32.
u32_shl(value, shift) ==
  IF shift >= 16
    THEN <<(value * 2^(shift - 16)) % 65536, 0>>
    ELSE <<((value * 2^shift) \div 65536) % 65536, (value * 2^shift) % 65536>>

u32_or(a, b) == <<bit_or(a[1], b[1]), bit_or(a[2], b[2])>>

\* for (index, byte) in inputs.iter().enumerate(), from `index` on:
\* *output |= (*byte as u32) << ((3-index) * 8)
RECURSIVE md_word_loop(_, _, _)
md_word_loop(inputs, index, output) ==
  IF index >= Len(inputs) THEN output
  ELSE md_word_loop(inputs, index + 1,
                    u32_or(output, u32_shl(inputs[index + 1], (3 - index) * 8)))

\* [0u32; 16], then the zip of input_slice.chunks(4) with its words.
md_words_of(input_slice) ==
  [ k \in 1..BLOCK_LEN_512_U32 |->
      IF 4 * (k - 1) < Len(input_slice)
        THEN md_word_loop(chunk_of(rest_of(input_slice, 4 * (k - 1)), 4),
                          0, <<0, 0>>)
        ELSE <<0, 0>> ]

\* fill_length: the message length in bits in the last two words.
fill_length(self, block) ==
  LET message_bits == self.message_len * 8
      high == (message_bits \div 65536) \div 65536
      high_order_word == <<(high \div 65536) % 65536, high % 65536>>
      low_order_word == <<(message_bits \div 65536) % 65536,
                          message_bits % 65536>>
  IN  [block EXCEPT ![BLOCK_LEN_512_U32 - 1] = high_order_word,
                    ![BLOCK_LEN_512_U32] = low_order_word]

MDPadding512u32_new(bytes) ==
  [ raw_iterator |-> bytes,
    final_bit_sent |-> FALSE,
    message_len_sent |-> FALSE,
    message_len |-> Len(bytes) ]

\* next(): the item returned (Some(block) or None) and the iterator after.
MDPadding512u32_next(self) ==
  IF self.raw_iterator # <<>>
    THEN LET input_slice == chunk_of(self.raw_iterator, size_of_Block512u32)
             after == rest_of(self.raw_iterator, size_of_Block512u32)
             input_len == Len(input_slice)
             result == md_words_of(input_slice)
             block_size_u8 == size_of_Block512u32
             word_index == input_len \div 4
             word_shift == (3 - (input_len % 4)) * 8
         IN  IF input_len < block_size_u8
               THEN LET with_bit ==
                          [result EXCEPT ![word_index + 1] =
                             u32_or(@, u32_shl(1, 7 + word_shift))]
                    IN  IF block_size_u8 - (input_len + 1) >= 8
                          THEN [ item |-> Some(fill_length(self, with_bit)),
                                 self |-> [self EXCEPT
                                             !.raw_iterator = after,
                                             !.final_bit_sent = TRUE,
                                             !.message_len_sent = TRUE] ]
                          ELSE [ item |-> Some(with_bit),
                                 self |-> [self EXCEPT
                                             !.raw_iterator = after,
                                             !.final_bit_sent = TRUE] ]
               ELSE [ item |-> Some(result),
                      self |-> [self EXCEPT !.raw_iterator = after] ]
    ELSE IF self.message_len_sent
      THEN [ item |-> None, self |-> self ]
      ELSE LET zeroes == [k \in 1..BLOCK_LEN_512_U32 |-> <<0, 0>>]
               result == IF ~self.final_bit_sent
                           THEN [zeroes EXCEPT ![1] = u32_shl(1, 31)]
                           ELSE zeroes
           IN  [ item |-> Some(fill_length(self, result)),
                 self |-> [self EXCEPT !.final_bit_sent = TRUE,
                                       !.message_len_sent = TRUE] ]

\* A mutant of MDPadding512u32_size_hint: < instead of <= on the room left.
MDPadding512u32_size_hint_strict(self) ==
  LET block_size_u8 == size_of_Block512u32
      full_blocks == self.message_len \div block_size_u8
      remaining_message_bytes == self.message_len % block_size_u8
      remaining_bytes == remaining_message_bytes + 1 + 64 \div 8
      extra_blocks == IF remaining_bytes < block_size_u8 THEN 1 ELSE 2
      block_count == full_blocks + extra_blocks
  IN  <<block_count, Some(block_count)>>

\* size_hint(): (lower bound, upper bound).
MDPadding512u32_size_hint(self) ==
  LET block_size_u8 == size_of_Block512u32
      full_blocks == self.message_len \div block_size_u8
      remaining_message_bytes == self.message_len % block_size_u8
      remaining_bytes == remaining_message_bytes + 1 + 64 \div 8
      extra_blocks == IF remaining_bytes <= block_size_u8 THEN 1 ELSE 2
      block_count == full_blocks + extra_blocks
  IN  <<block_count, Some(block_count)>>

(***************************************************************************)
(* block_ciphers/aes/mod.rs, mod tests: the published examples             *)
(***************************************************************************)

\* tests::key_expansion_128, the key (lines 242-245)
TEST_KEY_128 ==
  <<
    \h2b, \h7e, \h15, \h16, \h28, \hae, \hd2, \ha6,
    \hab, \hf7, \h15, \h88, \h09, \hcf, \h4f, \h3c
  >>

\* tests::key_expansion_128, `expected` (lines 246-267)
TEST_EXPANDED_128 ==
  <<
    GFWord_from(\h2b7e, \h1516), GFWord_from(\h28ae, \hd2a6),
    GFWord_from(\habf7, \h1588), GFWord_from(\h09cf, \h4f3c),
    GFWord_from(\ha0fa, \hfe17), GFWord_from(\h8854, \h2cb1),
    GFWord_from(\h23a3, \h3939), GFWord_from(\h2a6c, \h7605),
    GFWord_from(\hf2c2, \h95f2), GFWord_from(\h7a96, \hb943),
    GFWord_from(\h5935, \h807a), GFWord_from(\h7359, \hf67f),
    GFWord_from(\h3d80, \h477d), GFWord_from(\h4716, \hfe3e),
    GFWord_from(\h1e23, \h7e44), GFWord_from(\h6d7a, \h883b),
    GFWord_from(\hef44, \ha541), GFWord_from(\ha852, \h5b7f),
    GFWord_from(\hb671, \h253b), GFWord_from(\hdb0b, \had00),
    GFWord_from(\hd4d1, \hc6f8), GFWord_from(\h7c83, \h9d87),
    GFWord_from(\hcaf2, \hb8bc), GFWord_from(\h11f9, \h15bc),
    GFWord_from(\h6d88, \ha37a), GFWord_from(\h110b, \h3efd),
    GFWord_from(\hdbf9, \h8641), GFWord_from(\hca00, \h93fd),
    GFWord_from(\h4e54, \hf70e), GFWord_from(\h5f5f, \hc9f3),
    GFWord_from(\h84a6, \h4fb2), GFWord_from(\h4ea6, \hdc4f),
    GFWord_from(\head2, \h7321), GFWord_from(\hb58d, \hbad2),
    GFWord_from(\h312b, \hf560), GFWord_from(\h7f8d, \h292f),
    GFWord_from(\hac77, \h66f3), GFWord_from(\h19fa, \hdc21),
    GFWord_from(\h28d1, \h2941), GFWord_from(\h575c, \h006e),
    GFWord_from(\hd014, \hf9a8), GFWord_from(\hc9ee, \h2589),
    GFWord_from(\he13f, \h0cc8), GFWord_from(\hb663, \h0ca6)
  >>

\* tests::key_expansion_192, the key (lines 274-279)
TEST_KEY_192 ==
  <<
    \h8e, \h73, \hb0, \hf7, \hda, \h0e, \h64, \h52,
    \hc8, \h10, \hf3, \h2b, \h80, \h90, \h79, \he5,
    \h62, \hf8, \hea, \hd2, \h52, \h2c, \h6b, \h7b
  >>

\* tests::key_expansion_192, `expected` (lines 280-305)
TEST_EXPANDED_192 ==
  <<
    GFWord_from(\h8e73, \hb0f7), GFWord_from(\hda0e, \h6452),
    GFWord_from(\hc810, \hf32b), GFWord_from(\h8090, \h79e5),
    GFWord_from(\h62f8, \head2), GFWord_from(\h522c, \h6b7b),
    GFWord_from(\hfe0c, \h91f7), GFWord_from(\h2402, \hf5a5),
    GFWord_from(\hec12, \h068e), GFWord_from(\h6c82, \h7f6b),
    GFWord_from(\h0e7a, \h95b9), GFWord_from(\h5c56, \hfec2),
    GFWord_from(\h4db7, \hb4bd), GFWord_from(\h69b5, \h4118),
    GFWord_from(\h85a7, \h4796), GFWord_from(\he925, \h38fd),
    GFWord_from(\he75f, \had44), GFWord_from(\hbb09, \h5386),
    GFWord_from(\h485a, \hf057), GFWord_from(\h21ef, \hb14f),
    GFWord_from(\ha448, \hf6d9), GFWord_from(\h4d6d, \hce24),
    GFWord_from(\haa32, \h6360), GFWord_from(\h113b, \h30e6),
    GFWord_from(\ha25e, \h7ed5), GFWord_from(\h83b1, \hcf9a),
    GFWord_from(\h27f9, \h3943), GFWord_from(\h6a94, \hf767),
    GFWord_from(\hc0a6, \h9407), GFWord_from(\hd19d, \ha4e1),
    GFWord_from(\hec17, \h86eb), GFWord_from(\h6fa6, \h4971),
    GFWord_from(\h485f, \h7032), GFWord_from(\h22cb, \h8755),
    GFWord_from(\he26d, \h1352), GFWord_from(\h33f0, \hb7b3),
    GFWord_from(\h40be, \heb28), GFWord_from(\h2f18, \ha259),
    GFWord_from(\h6747, \hd26b), GFWord_from(\h458c, \h553e),
    GFWord_from(\ha7e1, \h466c), GFWord_from(\h9411, \hf1df),
    GFWord_from(\h821f, \h750a), GFWord_from(\had07, \hd753),
    GFWord_from(\hca40, \h0538), GFWord_from(\h8fcc, \h5006),
    GFWord_from(\h282d, \h166a), GFWord_from(\hbc3c, \he7b5),
    GFWord_from(\he98b, \ha06f), GFWord_from(\h448c, \h773c),
    GFWord_from(\h8ecc, \h7204), GFWord_from(\h0100, \h2202)
  >>

\* tests::key_expansion_256, the key (lines 312-319)
TEST_KEY_256 ==
  <<
    \h60, \h3d, \heb, \h10, \h15, \hca, \h71, \hbe,
    \h2b, \h73, \hae, \hf0, \h85, \h7d, \h77, \h81,
    \h1f, \h35, \h2c, \h07, \h3b, \h61, \h08, \hd7,
    \h2d, \h98, \h10, \ha3, \h09, \h14, \hdf, \hf4
  >>

\* tests::key_expansion_256, `expected` (lines 320-349)
TEST_EXPANDED_256 ==
  <<
    GFWord_from(\h603d, \heb10), GFWord_from(\h15ca, \h71be),
    GFWord_from(\h2b73, \haef0), GFWord_from(\h857d, \h7781),
    GFWord_from(\h1f35, \h2c07), GFWord_from(\h3b61, \h08d7),
    GFWord_from(\h2d98, \h10a3), GFWord_from(\h0914, \hdff4),
    GFWord_from(\h9ba3, \h5411), GFWord_from(\h8e69, \h25af),
    GFWord_from(\ha51a, \h8b5f), GFWord_from(\h2067, \hfcde),
    GFWord_from(\ha8b0, \h9c1a), GFWord_from(\h93d1, \h94cd),
    GFWord_from(\hbe49, \h846e), GFWord_from(\hb75d, \h5b9a),
    GFWord_from(\hd59a, \hecb8), GFWord_from(\h5bf3, \hc917),
    GFWord_from(\hfee9, \h4248), GFWord_from(\hde8e, \hbe96),
    GFWord_from(\hb5a9, \h328a), GFWord_from(\h2678, \ha647),
    GFWord_from(\h9831, \h2229), GFWord_from(\h2f6c, \h79b3),
    GFWord_from(\h812c, \h81ad), GFWord_from(\hdadf, \h48ba),
    GFWord_from(\h2436, \h0af2), GFWord_from(\hfab8, \hb464),
    GFWord_from(\h98c5, \hbfc9), GFWord_from(\hbebd, \h198e),
    GFWord_from(\h268c, \h3ba7), GFWord_from(\h09e0, \h4214),
    GFWord_from(\h6800, \h7bac), GFWord_from(\hb2df, \h3316),
    GFWord_from(\h96e9, \h39e4), GFWord_from(\h6c51, \h8d80),
    GFWord_from(\hc814, \he204), GFWord_from(\h76a9, \hfb8a),
    GFWord_from(\h5025, \hc02d), GFWord_from(\h59c5, \h8239),
    GFWord_from(\hde13, \h6967), GFWord_from(\h6ccc, \h5a71),
    GFWord_from(\hfa25, \h6395), GFWord_from(\h9674, \hee15),
    GFWord_from(\h5886, \hca5d), GFWord_from(\h2e2f, \h31d7),
    GFWord_from(\h7e0a, \hf1fa), GFWord_from(\h27cf, \h73c3),
    GFWord_from(\h749c, \h47ab), GFWord_from(\h1850, \h1dda),
    GFWord_from(\he275, \h7e4f), GFWord_from(\h7401, \h905a),
    GFWord_from(\hcafa, \haae3), GFWord_from(\he4d5, \h9b34),
    GFWord_from(\h9adf, \h6ace), GFWord_from(\hbd10, \h190d),
    GFWord_from(\hfe48, \h90d1), GFWord_from(\he618, \h8d0b),
    GFWord_from(\h046d, \hf344), GFWord_from(\h706c, \h631e)
  >>

\* tests::cipher_example, the input block (lines 357-358)
EXAMPLE_PLAINTEXT ==
  <<
    \h32, \h43, \hf6, \ha8, \h88, \h5a, \h30, \h8d,
    \h31, \h31, \h98, \ha2, \he0, \h37, \h07, \h34
  >>

\* tests::cipher_example, the expected output (lines 363-364)
EXAMPLE_CIPHERTEXT ==
  <<
    \h39, \h25, \h84, \h1d, \h02, \hdc, \h09, \hfb,
    \hdc, \h11, \h85, \h97, \h19, \h6a, \h0b, \h32
  >>

\* tests::example_vectors, `plaintext` (lines 371-372)
VECTORS_PLAINTEXT ==
  <<
    \h00, \h11, \h22, \h33, \h44, \h55, \h66, \h77,
    \h88, \h99, \haa, \hbb, \hcc, \hdd, \hee, \hff
  >>

\* tests::example_vectors, the 128-bit key (lines 375-378)
VECTORS_KEY_128 ==
  <<
    \h00, \h01, \h02, \h03, \h04, \h05, \h06, \h07,
    \h08, \h09, \h0a, \h0b, \h0c, \h0d, \h0e, \h0f
  >>

\* tests::example_vectors, the 128-bit ciphertext (lines 381-382)
VECTORS_CIPHERTEXT_128 ==
  <<
    \h69, \hc4, \he0, \hd8, \h6a, \h7b, \h04, \h30,
    \hd8, \hcd, \hb7, \h80, \h70, \hb4, \hc5, \h5a
  >>

\* tests::example_vectors, the 192-bit key (lines 386-391)
VECTORS_KEY_192 ==
  <<
    \h00, \h01, \h02, \h03, \h04, \h05, \h06, \h07,
    \h08, \h09, \h0a, \h0b, \h0c, \h0d, \h0e, \h0f,
    \h10, \h11, \h12, \h13, \h14, \h15, \h16, \h17
  >>

\* tests::example_vectors, the 192-bit ciphertext (lines 394-395)
VECTORS_CIPHERTEXT_192 ==
  <<
    \hdd, \ha9, \h7c, \ha4, \h86, \h4c, \hdf, \he0,
    \h6e, \haf, \h70, \ha0, \hec, \h0d, \h71, \h91
  >>

\* tests::example_vectors, the 256-bit key (lines 399-406)
VECTORS_KEY_256 ==
  <<
    \h00, \h01, \h02, \h03, \h04, \h05, \h06, \h07,
    \h08, \h09, \h0a, \h0b, \h0c, \h0d, \h0e, \h0f,
    \h10, \h11, \h12, \h13, \h14, \h15, \h16, \h17,
    \h18, \h19, \h1a, \h1b, \h1c, \h1d, \h1e, \h1f
  >>

\* tests::example_vectors, the 256-bit ciphertext (lines 409-410)
VECTORS_CIPHERTEXT_256 ==
  <<
    \h8e, \ha2, \hb7, \hca, \h51, \h67, \h45, \hbf,
    \hea, \hfc, \h49, \h90, \h4b, \h49, \h60, \h89
  >>

(***************************************************************************)
(* The keyed ciphers that callers hand to the modes: closures over cipher  *)
(* and inv_cipher with round keys of the caller's.                         *)
(***************************************************************************)

\* A slice of n words that no key expansion produced.
RECURSIVE raw_round_keys(_)
raw_round_keys(n) ==
  IF n = 0 THEN <<>>
  ELSE Append(raw_round_keys(n - 1),
              GFWord_new((29 * n) % 256, (53 * n + 7) % 256,
                         (101 * n + 1) % 256, (211 * n + 90) % 256))

RoundKeysAes128 == key_expansion_128(VECTORS_KEY_128)

RoundKeysOwn8 == raw_round_keys(8)

KeyedCiphers == {"aes128", "own8"}

keyed_round_keys(k) == IF k = "aes128" THEN RoundKeysAes128 ELSE RoundKeysOwn8

\* |block| cipher(block, &round_keys)
keyed_cipher(k, block) ==
  strict(block, cipher(block, keyed_round_keys(k)).val)

\* |block| inv_cipher(block, &round_keys)
keyed_inv_cipher(k, block) ==
  strict(block, inv_cipher(block, keyed_round_keys(k)).val)

(***************************************************************************)
(* block_ciphers/modes.rs: what one step of each mode computes.  The keyed *)
(* cipher is a closure of the caller, named here by k.                     *)
(***************************************************************************)

\* cbc_128u8, the closure mapped over the padded blocks: the ciphertext
\* block emitted for `block` when the cursor is last_ciphertext.
\* A mutant of cbc_block: the block is encrypted without the XOR.
cbc_block_without_chaining(k, last_ciphertext, block) ==
  keyed_cipher(k, block)

cbc_block(k, last_ciphertext, block) ==
  keyed_cipher(k, inplace_xor_bytes(block, last_ciphertext).val)

\* inv_cbc_128u8, the closure mapped over the ciphertext blocks: the
\* plaintext block for ciphertext_block when the cursor is last_ciphertext.
inv_cbc_block(k, last_ciphertext, ciphertext_block) ==
  inplace_xor_bytes(keyed_inv_cipher(k, ciphertext_block),
                    last_ciphertext).val

\* inv_cbc_128u8, "if input_len % BLOCK_LEN_128_U8 != 0 { return None; }":
\* whether an input of that length is turned down.
\* A mutant of inv_cbc_cursor: the cursor follows the decrypted block.
inv_cbc_cursor_on_plaintext(ciphertext_block, result) == result

\* inv_cbc_128u8, "last_ciphertext = ciphertext_block": the cursor after
\* ciphertext_block was decrypted into result.
inv_cbc_cursor(ciphertext_block, result) == ciphertext_block

\* A mutant of inv_cbc_rejects: only inputs shorter than a block are turned down.
inv_cbc_rejects_accepting_whole_blocks_first(input_len) ==
  input_len < BLOCK_LEN_128_U8

inv_cbc_rejects(input_len) ==
  input_len % BLOCK_LEN_128_U8 # 0

\* inv_cbc_128u8, "Discard the padding and output the final message".
\* input_len - 1 underflows for an empty input and the index is then out of
\* bounds: a panic in every build.  input_len - padding_bytes underflows
\* when the last byte exceeds the length: a panic where overflow checks are
\* compiled in (overflow_checks), and otherwise a wrapped, huge length that
\* Vec::truncate ignores.
\* A mutant of inv_cbc_discard_padding: nothing is truncated.
inv_cbc_keep_padding(output_vec, input_len, overflow_checks) ==
  IF input_len - 1 < 0 THEN Panic ELSE Some(output_vec)

inv_cbc_discard_padding(output_vec, input_len, overflow_checks) ==
  IF input_len - 1 < 0 \/ input_len - 1 >= Len(output_vec) THEN Panic
  ELSE LET padding_bytes == output_vec[input_len]
       IN  IF input_len - padding_bytes < 0
             THEN IF overflow_checks THEN Panic ELSE Some(output_vec)
           ELSE IF input_len - padding_bytes > Len(output_vec)
             THEN Some(output_vec)
           ELSE Some(SubSeq(output_vec, 1, input_len - padding_bytes))

\* A mutant of carry_loop_breaks: the loop ends on overflow.
carry_loop_breaks_on_overflow(overflow) == overflow

\* if !overflow { break; }
carry_loop_breaks(overflow) == ~overflow

\* ctr_128u8, the loop of the closure next_counter from `index` on: the
\* counter after the increment, and the number of bytes visited.
RECURSIVE next_counter_loop(_, _, _)
next_counter_loop(counter, index, visited) ==
  LET new_value == (counter[index + 1] + 1) % 256
      overflow == counter[index + 1] + 1 > 255
      incremented == [counter EXCEPT ![index + 1] = new_value]
  IN  IF carry_loop_breaks(overflow)
        THEN [counter |-> incremented, visited |-> visited + 1]
        ELSE next_counter_loop(
               incremented,
               IF index # 0 THEN index - 1 ELSE BLOCK_LEN_128_U8 - 1,
               visited + 1)

\* A mutant of next_counter: the incremented counter is returned.
next_counter_returning_new(counter) ==
  LET new == next_counter_loop(counter, BLOCK_LEN_128_U8 - 1, 0).counter
  IN  [old_counter |-> new, counter |-> new]

\* The closure next_counter: the value it returns (the old counter) and the
\* counter it leaves behind.
next_counter(counter) ==
  [ old_counter |-> counter,
    counter |-> next_counter_loop(counter, BLOCK_LEN_128_U8 - 1, 0).counter ]

RECURSIVE add_zip(_, _)
add_zip(acc, operand) ==
  IF acc = <<>> \/ operand = <<>> THEN <<>>
  ELSE <<(Head(acc) + Head(operand)) % 256>> \o
       add_zip(Tail(acc), Tail(operand))

\* A mutant of ctr_chunk: the pad is added modulo 256 instead of XORed.
ctr_chunk_adding_the_pad(k, counter, input_chunk) ==
  add_zip(input_chunk, keyed_cipher(k, counter))

\* ctr_128u8, the body of "for input in input.chunks(16)": the bytes pushed
\* for the chunk `input_chunk` under the one-time pad of `counter`.
ctr_chunk(k, counter, input_chunk) ==
  xor_zip(input_chunk, keyed_cipher(k, counter))

(***************************************************************************)
(* The AES driver as a state machine: a caller expands a key (or brings a  *)
(* slice of round keys of its own), then calls cipher and inv_cipher on    *)
(* the block it holds.                                                     *)
(***************************************************************************)

VARIABLES
  aes_pc,       \* "new": no round keys yet; "keyed": round keys in hand
  aes_key,      \* the key given to key_expansion_*, <<>> if none was
  round_keys,   \* the round keys handed to cipher and inv_cipher
  input,        \* the block the caller started from
  text,         \* the outcome of the last call (at first: the input)
  calls         \* the calls made so far, in order

aesVars == <<aes_pc, aes_key, round_keys, input, text, calls>>

\* What the caller of a mode of operation brings.
VARIABLES
  message,      \* the bytes to encrypt
  init_vector,  \* the IV
  keyed         \* the keyed cipher (and its inverse), one of KeyedCiphers

callerVars == <<message, init_vector, keyed>>

\* cbc_128u8 applied to PKCS7Padding128u8::new(message).
VARIABLES
  cbc_pc,               \* "start", "cbc", "cbc_returned", "inv_cbc",
                        \* "inv_cbc_returned"
  cbc_padded_input,     \* the padding iterator
  cbc_blocks,           \* the padded blocks the iterator has yielded
  cbc_last_ciphertext,  \* the cursor
  cbc_output            \* the ciphertext collected so far

\* inv_cbc_128u8.
VARIABLES
  inv_source,           \* "ciphertext": the input is cbc_128u8's output;
                        \* "message": the input is the message as it is
  inv_input,            \* the input slice
  inv_rest,             \* the part of it that input_iter has yet to yield
  inv_last_ciphertext,  \* the cursor
  inv_output_vec,       \* the plaintext collected so far
  inv_calls,            \* the number of calls of keyed_inv_cipher
  inv_result            \* what inv_cbc_128u8 returned

cbcVars ==
  <<cbc_pc, cbc_padded_input, cbc_blocks, cbc_last_ciphertext, cbc_output,
    inv_source, inv_input, inv_rest, inv_last_ciphertext, inv_output_vec,
    inv_calls, inv_result>>

\* ctr_128u8, applied to the message and then to its own output.
VARIABLES
  ctr_pc,        \* "start", "ctr", "ctr_returned"
  ctr_pass,      \* 1: the input is the message; 2: it is the first output
  ctr_input,     \* the input slice of this pass
  ctr_rest,      \* the part of it that input.chunks(16) has yet to yield
  ctr_counter,   \* the counter captured by next_counter
  ctr_counters,  \* the counters next_counter has returned in this pass
  ctr_output     \* the output collected so far

ctrVars ==
  <<ctr_pc, ctr_pass, ctr_input, ctr_rest, ctr_counter, ctr_counters,
    ctr_output>>

\* A caller of PKCS7Padding128u8: new(&message), then next() again and
\* again.
VARIABLES
  pkcs7_pc,     \* "start", "iterating"
  pkcs7_self,   \* the iterator
  pkcs7_items,  \* what next() has returned so far, in order
  pkcs7_nones   \* how many of these are None

pkcs7Vars == <<pkcs7_pc, pkcs7_self, pkcs7_items, pkcs7_nones>>

\* A caller of the GFByte operators on three bytes.
VARIABLES
  gf_pc,        \* "new", "added", "multiplied"
  gf_a,         \* the three bytes
  gf_b,
  gf_c,
  gf_sums,      \* the sums computed from them
  gf_products   \* the products computed from them

gfVars == <<gf_pc, gf_a, gf_b, gf_c, gf_sums, gf_products>>

\* A caller, inside the crate, of State and its methods.
VARIABLES
  st_pc,          \* "new", "live" (a State is held), "done"
  st_input,       \* the block the State is built from
  st_words,       \* the outcome of the last method: the words of the State
  st_calls,       \* the methods called so far, in order
  st_round_keys,  \* the slices handed to add_round_key, in order
  st_output       \* the block the State was converted into

stateVars ==
  <<st_pc, st_input, st_words, st_calls, st_round_keys, st_output>>

\* A caller of MDPadding512u32: new(&message), then next() again and again.
VARIABLES
  md_pc,     \* "start", "iterating"
  md_self,   \* the iterator
  md_items,  \* what next() has returned so far, in order
  md_nones   \* how many of these are None

mdVars == <<md_pc, md_self, md_items, md_nones>>

\* One call of cipher, statement by statement.
VARIABLES
  run_pc,      \* the statement to execute next, "returned" or "panicked"
  run_fn,      \* the function running: "cipher" or "inv_cipher"
  run_input,   \* the input block
  run_keys,    \* the round keys
  run_n_r,     \* n_r
  run_round,   \* the loop variable round
  run_state,   \* the words of the State
  run_trace,   \* the methods called on the State so far, with the bounds
               \* of the slice of round keys they were given
  run_output   \* the block returned

runVars ==
  <<run_pc, run_fn, run_input, run_keys, run_n_r, run_round, run_state,
    run_trace, run_output>>

\* One call of key_expansion, one word a step.
VARIABLES
  ke_pc,       \* "enter", "key_words", "expand", "returned" or "panicked"
  ke_key,      \* the key
  ke_w_len,    \* w.len()
  ke_w,        \* the words written to w so far, w[0..i]
  ke_i,        \* the loop variable i
  ke_lookups   \* the indices r_con was read at, in order

keVars == <<ke_pc, ke_key, ke_w_len, ke_w, ke_i, ke_lookups>>

\* One call of the closure next_counter, one iteration of its loop a step.
VARIABLES
  nc_pc,           \* "idle", "loop" (in the loop) or "pad" (it returned)
  nc_old_counter,  \* old_counter
  nc_index,        \* index
  nc_visited       \* how many times the loop body has run in this call

ncVars == <<nc_pc, nc_old_counter, nc_index, nc_visited>>

vars ==
  <<aesVars, callerVars, cbcVars, ctrVars, pkcs7Vars, gfVars, stateVars,
    mdVars, runVars, keVars, ncVars>>

\* The largest slice of round keys a caller brings without a key expansion.
MaxRoundKeys == 13

\* The number of cipher / inv_cipher calls made on one block.
MaxCalls == 2

\* The longest message handed to a mode of operation, in bytes.
MaxMessageLen == 33

\* The number of calls of next() made on an exhausted iterator.
MaxNones == 2

Keys128 == {TEST_KEY_128, VECTORS_KEY_128}
Keys192 == {TEST_KEY_192, VECTORS_KEY_192}
Keys256 == {TEST_KEY_256, VECTORS_KEY_256}

\* The 16-byte blocks the callers start from.
Blocks ==
  { EXAMPLE_PLAINTEXT, VECTORS_PLAINTEXT,
    <<0, 0, 0, 0, 0, 0, 0, 0, 0, 0, 0, 0, 0, 0, 0, 0>>,
    <<255, 255, 255, 255, 255, 255, 255, 255,
      255, 255, 255, 255, 255, 255, 255, 255>> }


\* A message of n bytes.
make_message(n, len) == [i \in 1..n |-> (37 * i + 11 * len + 5) % 256]

Messages == { make_message(n, n) : n \in 0..MaxMessageLen }

ZeroBlock == <<0, 0, 0, 0, 0, 0, 0, 0, 0, 0, 0, 0, 0, 0, 0, 0>>

OnesBlock ==
  <<255, 255, 255, 255, 255, 255, 255, 255,
    255, 255, 255, 255, 255, 255, 255, 255>>

\* The IVs handed to cbc_128u8 and inv_cbc_128u8.
CbcInitVectors == {ZeroBlock, EXAMPLE_PLAINTEXT}

\* The IVs handed to ctr_128u8: counters far from and close to 2^128 - 1.
CtrInitVectors ==
  {ZeroBlock, VECTORS_PLAINTEXT, OnesBlock, [OnesBlock EXCEPT ![16] = 254]}

CallerIdle ==
  /\ message = <<>>
  /\ init_vector = <<>>
  /\ keyed = "none"

CbcIdle ==
  /\ cbc_pc = "off"
  /\ cbc_padded_input = PKCS7Padding128u8_new(<<>>)
  /\ cbc_blocks = <<>>
  /\ cbc_last_ciphertext = <<>>
  /\ cbc_output = <<>>
  /\ inv_source = "none"
  /\ inv_input = <<>>
  /\ inv_rest = <<>>
  /\ inv_last_ciphertext = <<>>
  /\ inv_output_vec = <<>>
  /\ inv_calls = 0
  /\ inv_result = Pending

CtrIdle ==
  /\ ctr_pc = "off"
  /\ ctr_pass = 0
  /\ ctr_input = <<>>
  /\ ctr_rest = <<>>
  /\ ctr_counter = <<>>
  /\ ctr_counters = <<>>
  /\ ctr_output = <<>>

Pkcs7Idle ==
  /\ pkcs7_pc = "off"
  /\ pkcs7_self = PKCS7Padding128u8_new(<<>>)
  /\ pkcs7_items = <<>>
  /\ pkcs7_nones = 0

GfIdle ==
  /\ gf_pc = "off"
  /\ gf_a = 0
  /\ gf_b = 0
  /\ gf_c = 0
  /\ gf_sums = <<>>
  /\ gf_products = <<>>

StateIdle ==
  /\ st_pc = "off"
  /\ st_input = <<>>
  /\ st_words = Returned(<<>>)
  /\ st_calls = <<>>
  /\ st_round_keys = <<>>
  /\ st_output = <<>>

MdIdle ==
  /\ md_pc = "off"
  /\ md_self = MDPadding512u32_new(<<>>)
  /\ md_items = <<>>
  /\ md_nones = 0

RunIdle ==
  /\ run_pc = "off"
  /\ run_fn = "off"
  /\ run_input = <<>>
  /\ run_keys = <<>>
  /\ run_n_r = 0
  /\ run_round = 0
  /\ run_state = <<>>
  /\ run_trace = <<>>
  /\ run_output = <<>>

KeIdle ==
  /\ ke_pc = "off"
  /\ ke_key = <<>>
  /\ ke_w_len = 0
  /\ ke_w = <<>>
  /\ ke_i = 0
  /\ ke_lookups = <<>>

NcIdle ==
  /\ nc_pc = "off"
  /\ nc_old_counter = <<>>
  /\ nc_index = 0
  /\ nc_visited = 0

AesIdle ==
  /\ aes_pc = "off"
  /\ aes_key = <<>>
  /\ round_keys = <<>>
  /\ input = <<>>
  /\ text = Returned(<<>>)
  /\ calls = <<>>

AesInit ==
  /\ aes_pc = "new"
  /\ aes_key = <<>>
  /\ round_keys = <<>>
  /\ input \in Blocks
  /\ text = Returned(input)
  /\ calls = <<>>
  /\ CallerIdle
  /\ CbcIdle
  /\ CtrIdle
  /\ Pkcs7Idle
  /\ GfIdle
  /\ StateIdle
  /\ MdIdle
  /\ RunIdle
  /\ KeIdle
  /\ NcIdle

KeyExpansion128 ==
  /\ aes_pc = "new"
  /\ \E key \in Keys128 :
       /\ aes_key' = key
       /\ round_keys' = key_expansion_128(key)
  /\ aes_pc' = "keyed"
  /\ UNCHANGED <<input, text, calls>>
  /\ UNCHANGED <<callerVars, cbcVars, ctrVars, pkcs7Vars, gfVars, stateVars,
                 mdVars, runVars, keVars, ncVars>>

KeyExpansion192 ==
  /\ aes_pc = "new"
  /\ \E key \in Keys192 :
       /\ aes_key' = key
       /\ round_keys' = key_expansion_192(key)
  /\ aes_pc' = "keyed"
  /\ UNCHANGED <<input, text, calls>>
  /\ UNCHANGED <<callerVars, cbcVars, ctrVars, pkcs7Vars, gfVars, stateVars,
                 mdVars, runVars, keVars, ncVars>>

KeyExpansion256 ==
  /\ aes_pc = "new"
  /\ \E key \in Keys256 :
       /\ aes_key' = key
       /\ round_keys' = key_expansion_256(key)
  /\ aes_pc' = "keyed"
  /\ UNCHANGED <<input, text, calls>>
  /\ UNCHANGED <<callerVars, cbcVars, ctrVars, pkcs7Vars, gfVars, stateVars,
                 mdVars, runVars, keVars, ncVars>>

OwnRoundKeys ==
  /\ aes_pc = "new"
  /\ \E n \in 0..MaxRoundKeys : round_keys' = raw_round_keys(n)
  /\ aes_pc' = "keyed"
  /\ UNCHANGED <<aes_key, input, text, calls>>
  /\ UNCHANGED <<callerVars, cbcVars, ctrVars, pkcs7Vars, gfVars, stateVars,
                 mdVars, runVars, keVars, ncVars>>

Cipher ==
  /\ aes_pc = "keyed"
  /\ Len(calls) < MaxCalls
  /\ text.ok
  /\ text' = cipher(text.val, round_keys)
  /\ calls' = Append(calls, "cipher")
  /\ UNCHANGED <<aes_pc, aes_key, round_keys, input>>
  /\ UNCHANGED <<callerVars, cbcVars, ctrVars, pkcs7Vars, gfVars, stateVars,
                 mdVars, runVars, keVars, ncVars>>

InvCipher ==
  /\ aes_pc = "keyed"
  /\ Len(calls) < MaxCalls
  /\ text.ok
  /\ text' = inv_cipher(text.val, round_keys)
  /\ calls' = Append(calls, "inv_cipher")
  /\ UNCHANGED <<aes_pc, aes_key, round_keys, input>>
  /\ UNCHANGED <<callerVars, cbcVars, ctrVars, pkcs7Vars, gfVars, stateVars,
                 mdVars, runVars, keVars, ncVars>>

AesNext ==
  \/ KeyExpansion128
  \/ KeyExpansion192
  \/ KeyExpansion256
  \/ OwnRoundKeys
  \/ Cipher
  \/ InvCipher

SpecAes == AesInit /\ [][AesNext]_vars

(***************************************************************************)
(* CBC as a state machine: cbc_128u8 pulls one padded block at a time from *)
(* the padding iterator; inv_cbc_128u8 pulls one ciphertext block at a     *)
(* time from its input, which is cbc_128u8's output or the caller's bytes. *)
(***************************************************************************)

CbcInit ==
  /\ message \in Messages
  /\ init_vector \in CbcInitVectors
  /\ keyed \in KeyedCiphers
  /\ cbc_pc = "start"
  /\ cbc_padded_input = PKCS7Padding128u8_new(<<>>)
  /\ cbc_blocks = <<>>
  /\ cbc_last_ciphertext = <<>>
  /\ cbc_output = <<>>
  /\ inv_source = "none"
  /\ inv_input = <<>>
  /\ inv_rest = <<>>
  /\ inv_last_ciphertext = <<>>
  /\ inv_output_vec = <<>>
  /\ inv_calls = 0
  /\ inv_result = Pending
  /\ AesIdle
  /\ CtrIdle
  /\ Pkcs7Idle
  /\ GfIdle
  /\ StateIdle
  /\ MdIdle
  /\ RunIdle
  /\ KeIdle
  /\ NcIdle

invVars ==
  <<inv_source, inv_input, inv_rest, inv_last_ciphertext, inv_output_vec,
    inv_calls, inv_result>>

\* cbc_128u8(&keyed_cipher, init_vector, PKCS7Padding128u8::new(&message))
CbcCall ==
  /\ cbc_pc = "start"
  /\ cbc_pc' = "cbc"
  /\ cbc_padded_input' = PKCS7Padding128u8_new(message)
  /\ cbc_last_ciphertext' = init_vector
  /\ cbc_output' = <<>>
  /\ UNCHANGED <<cbc_blocks, invVars, aesVars, callerVars, ctrVars,
                 pkcs7Vars, gfVars, stateVars, mdVars, runVars, keVars,
                 ncVars>>

\* The iterator yields a block: it is XORed with the cursor, encrypted,
\* made the cursor and collected.
CbcBlock ==
  /\ cbc_pc = "cbc"
  /\ LET next == PKCS7Padding128u8_next(cbc_padded_input)
     IN  /\ next.item.tag = "Some"
         /\ cbc_padded_input' = next.self
         /\ cbc_blocks' = Append(cbc_blocks, next.item.val)
         /\ cbc_last_ciphertext' =
              cbc_block(keyed, cbc_last_ciphertext, next.item.val)
         /\ cbc_output' = cbc_output \o cbc_last_ciphertext'
  /\ UNCHANGED <<cbc_pc, invVars, aesVars, callerVars, ctrVars, pkcs7Vars,
                 gfVars, stateVars, mdVars, runVars, keVars, ncVars>>

\* The iterator is exhausted: cbc_128u8 returns the collected bytes.
CbcReturn ==
  /\ cbc_pc = "cbc"
  /\ PKCS7Padding128u8_next(cbc_padded_input).item.tag = "None"
  /\ cbc_pc' = "cbc_returned"
  /\ UNCHANGED <<cbc_padded_input, cbc_blocks, cbc_last_ciphertext,
                 cbc_output, invVars, aesVars, callerVars, ctrVars,
                 pkcs7Vars, gfVars, stateVars, mdVars, runVars, keVars,
                 ncVars>>

\* inv_cbc_128u8(&keyed_inv_cipher, init_vector, bytes), up to the first
\* block: None at once if the length is no multiple of the block length.
InvCbcEnter(source, bytes) ==
  /\ inv_source' = source
  /\ inv_input' = bytes
  /\ inv_calls' = 0
  /\ IF inv_cbc_rejects(Len(bytes))
       THEN /\ cbc_pc' = "inv_cbc_returned"
            /\ inv_result' = None
            /\ UNCHANGED <<inv_rest, inv_last_ciphertext, inv_output_vec>>
       ELSE /\ cbc_pc' = "inv_cbc"
            /\ inv_rest' = bytes
            /\ inv_last_ciphertext' = init_vector
            /\ inv_output_vec' = <<>>
            /\ UNCHANGED inv_result
  /\ UNCHANGED <<cbc_padded_input, cbc_blocks, cbc_last_ciphertext,
                 cbc_output, aesVars, callerVars, ctrVars, pkcs7Vars, gfVars,
                 stateVars, mdVars, runVars, keVars, ncVars>>

\* The recipient decrypts what cbc_128u8 returned.
InvCbcCall ==
  /\ cbc_pc = "cbc_returned"
  /\ InvCbcEnter("ciphertext", cbc_output)

\* inv_cbc_128u8 is handed bytes that cbc_128u8 did not produce.
InvCbcCallOnAnyBytes ==
  /\ cbc_pc = "start"
  /\ InvCbcEnter("message", message)

\* The next ciphertext block is decrypted, XORed with the cursor and
\* collected; the cursor moves to that ciphertext block.
InvCbcBlock ==
  /\ cbc_pc = "inv_cbc"
  /\ inv_rest # <<>>
  /\ LET slice == chunk_of(inv_rest, BLOCK_LEN_128_U8)
         ciphertext_block == as_block_128u8(slice)
     IN  IF ciphertext_block.ok
           THEN /\ LET result == inv_cbc_block(keyed, inv_last_ciphertext,
                                                 ciphertext_block.val)
                   IN  /\ inv_output_vec' = inv_output_vec \o result
                       /\ inv_last_ciphertext' =
                            inv_cbc_cursor(ciphertext_block.val, result)
                /\ inv_rest' = rest_of(inv_rest, BLOCK_LEN_128_U8)
                /\ inv_calls' = inv_calls + 1
                /\ UNCHANGED <<cbc_pc, inv_result>>
           ELSE /\ cbc_pc' = "inv_cbc_returned"
                /\ inv_result' = Panic
                /\ UNCHANGED <<inv_output_vec, inv_last_ciphertext,
                               inv_rest, inv_calls>>
  /\ UNCHANGED <<inv_source, inv_input, cbc_padded_input, cbc_blocks,
                 cbc_last_ciphertext, cbc_output, aesVars, callerVars,
                 ctrVars, pkcs7Vars, gfVars, stateVars, mdVars, runVars,
                 keVars, ncVars>>

\* All blocks are collected: the padding is discarded and the message
\* returned, in a build with or without overflow checks.
InvCbcReturn ==
  /\ cbc_pc = "inv_cbc"
  /\ inv_rest = <<>>
  /\ cbc_pc' = "inv_cbc_returned"
  /\ \E overflow_checks \in BOOLEAN :
       inv_result' = inv_cbc_discard_padding(inv_output_vec, Len(inv_input),
                                             overflow_checks)
  /\ UNCHANGED <<inv_source, inv_input, inv_rest, inv_last_ciphertext,
                 inv_output_vec, inv_calls, cbc_padded_input, cbc_blocks,
                 cbc_last_ciphertext, cbc_output, aesVars, callerVars,
                 ctrVars, pkcs7Vars, gfVars, stateVars, mdVars, runVars,
                 keVars, ncVars>>

CbcNext ==
  \/ CbcCall
  \/ CbcBlock
  \/ CbcReturn
  \/ InvCbcCall
  \/ InvCbcCallOnAnyBytes
  \/ InvCbcBlock
  \/ InvCbcReturn

SpecCbc == CbcInit /\ [][CbcNext]_vars

(***************************************************************************)
(* CTR as a state machine: ctr_128u8 takes one chunk of its input at a     *)
(* time; the caller then applies it again, to the output, with the same    *)
(* keyed cipher and IV.                                                    *)
(***************************************************************************)

CtrInit ==
  /\ message \in Messages
  /\ init_vector \in CtrInitVectors
  /\ keyed \in KeyedCiphers
  /\ ctr_pc = "start"
  /\ ctr_pass = 0
  /\ ctr_input = <<>>
  /\ ctr_rest = <<>>
  /\ ctr_counter = <<>>
  /\ ctr_counters = <<>>
  /\ ctr_output = <<>>
  /\ AesIdle
  /\ CbcIdle
  /\ Pkcs7Idle
  /\ GfIdle
  /\ StateIdle
  /\ MdIdle
  /\ RunIdle
  /\ KeIdle
  /\ NcIdle

\* ctr_128u8(&keyed_cipher, init_vector, bytes), up to the first chunk.
CtrEnter(bytes) ==
  /\ ctr_pc' = "ctr"
  /\ ctr_pass' = ctr_pass + 1
  /\ ctr_input' = bytes
  /\ ctr_rest' = bytes
  /\ ctr_counter' = init_vector
  /\ ctr_counters' = <<>>
  /\ ctr_output' = <<>>
  /\ UNCHANGED <<aesVars, callerVars, cbcVars, pkcs7Vars, gfVars, stateVars,
                 mdVars, runVars, keVars, ncVars>>

CtrCall ==
  /\ ctr_pc = "start"
  /\ CtrEnter(message)

\* The same call on the output of the first.
CtrCallOnOutput ==
  /\ ctr_pc = "ctr_returned"
  /\ ctr_pass = 1
  /\ CtrEnter(ctr_output)

\* One chunk: next_counter(), the one-time pad, the XOR of the chunk.
CtrChunk ==
  /\ ctr_pc = "ctr"
  /\ ctr_rest # <<>>
  /\ LET next == next_counter(ctr_counter)
         counter == next.old_counter
     IN  /\ ctr_counter' = next.counter
         /\ ctr_counters' = Append(ctr_counters, counter)
         /\ ctr_output' = ctr_output \o
              ctr_chunk(keyed, counter, chunk_of(ctr_rest, BLOCK_LEN_128_U8))
  /\ ctr_rest' = rest_of(ctr_rest, BLOCK_LEN_128_U8)
  /\ UNCHANGED <<ctr_pc, ctr_pass, ctr_input, aesVars, callerVars, cbcVars,
                 pkcs7Vars, gfVars, stateVars, mdVars, runVars, keVars,
                 ncVars>>

CtrReturn ==
  /\ ctr_pc = "ctr"
  /\ ctr_rest = <<>>
  /\ ctr_pc' = "ctr_returned"
  /\ UNCHANGED <<ctr_pass, ctr_input, ctr_rest, ctr_counter, ctr_counters,
                 ctr_output, aesVars, callerVars, cbcVars, pkcs7Vars, gfVars,
                 stateVars, mdVars, runVars, keVars, ncVars>>

CtrNext ==
  \/ CtrCall
  \/ CtrCallOnOutput
  \/ CtrChunk
  \/ CtrReturn

SpecCtr == CtrInit /\ [][CtrNext]_vars

(***************************************************************************)
(* PKCS#7 padding as a state machine: a caller builds the iterator over a  *)
(* message and calls next() until it has seen None MaxNones times.         *)
(***************************************************************************)

Pkcs7Init ==
  /\ message \in Messages
  /\ init_vector = <<>>
  /\ keyed = "none"
  /\ pkcs7_pc = "start"
  /\ pkcs7_self = PKCS7Padding128u8_new(<<>>)
  /\ pkcs7_items = <<>>
  /\ pkcs7_nones = 0
  /\ AesIdle
  /\ CbcIdle
  /\ CtrIdle
  /\ GfIdle
  /\ StateIdle
  /\ MdIdle
  /\ RunIdle
  /\ KeIdle
  /\ NcIdle

\* PKCS7Padding128u8::new(&message)
Pkcs7New ==
  /\ pkcs7_pc = "start"
  /\ pkcs7_pc' = "iterating"
  /\ pkcs7_self' = PKCS7Padding128u8_new(message)
  /\ UNCHANGED <<pkcs7_items, pkcs7_nones, aesVars, callerVars, cbcVars,
                 ctrVars, gfVars, stateVars, mdVars, runVars, keVars, ncVars>>

\* next()
Pkcs7IterNext ==
  /\ pkcs7_pc = "iterating"
  /\ pkcs7_nones < MaxNones
  /\ LET next == PKCS7Padding128u8_next(pkcs7_self)
     IN  /\ pkcs7_self' = next.self
         /\ pkcs7_items' = Append(pkcs7_items, next.item)
         /\ pkcs7_nones' =
              IF next.item = None THEN pkcs7_nones + 1 ELSE pkcs7_nones
  /\ UNCHANGED <<pkcs7_pc, aesVars, callerVars, cbcVars, ctrVars, gfVars,
                 stateVars, mdVars, runVars, keVars, ncVars>>

Pkcs7Next ==
  \/ Pkcs7New
  \/ Pkcs7IterNext

SpecPkcs7 == Pkcs7Init /\ [][Pkcs7Next]_vars

(***************************************************************************)
(* The GFByte operators as a state machine: a caller holding three bytes   *)
(* adds them, then multiplies them, in the ways the field laws speak of.   *)
(***************************************************************************)

\* The largest u8.
MaxByte == 255

\* The third byte is drawn from these (the first two from all bytes).
ThirdBytes == {1, \h80, \hfe}

GfInit ==
  /\ gf_pc = "new"
  /\ gf_a \in 0..MaxByte
  /\ gf_b \in 0..MaxByte
  /\ gf_c \in ThirdBytes
  /\ gf_sums = <<>>
  /\ gf_products = <<>>
  /\ AesIdle
  /\ CallerIdle
  /\ CbcIdle
  /\ CtrIdle
  /\ Pkcs7Idle
  /\ StateIdle
  /\ MdIdle
  /\ RunIdle
  /\ KeIdle
  /\ NcIdle

\* a + b, b + a, (a + b) + c, a + (b + c), a + a
GfAdd ==
  /\ gf_pc = "new"
  /\ gf_pc' = "added"
  /\ gf_sums' = [ ab   |-> GFByteAdd(gf_a, gf_b),
                  ba   |-> GFByteAdd(gf_b, gf_a),
                  ab_c |-> GFByteAdd(GFByteAdd(gf_a, gf_b), gf_c),
                  a_bc |-> GFByteAdd(gf_a, GFByteAdd(gf_b, gf_c)),
                  aa   |-> GFByteAdd(gf_a, gf_a) ]
  /\ UNCHANGED <<gf_a, gf_b, gf_c, gf_products, aesVars, callerVars, cbcVars,
                 ctrVars, pkcs7Vars, stateVars, mdVars, runVars, keVars,
                 ncVars>>

\* a * b, b * a, a * (b + c), a * b + a * c
GfMul ==
  /\ gf_pc = "added"
  /\ gf_pc' = "multiplied"
  /\ gf_products' =
       LET ab == GFByteMul(gf_a, gf_b)
       IN  [ ab    |-> ab,
             ba    |-> GFByteMul(gf_b, gf_a),
             a_bc  |-> GFByteMul(gf_a, GFByteAdd(gf_b, gf_c)),
             ab_ac |-> GFByteAdd(ab, GFByteMul(gf_a, gf_c)) ]
  /\ UNCHANGED <<gf_a, gf_b, gf_c, gf_sums, aesVars, callerVars, cbcVars,
                 ctrVars, pkcs7Vars, stateVars, mdVars, runVars, keVars,
                 ncVars>>

GfNext ==
  \/ GfAdd
  \/ GfMul

SpecGf == GfInit /\ [][GfNext]_vars

(***************************************************************************)
(* State as a state machine: a caller builds a State from a block, calls   *)
(* up to MaxStateCalls of its methods and converts it back into a block.   *)
(***************************************************************************)

\* The number of methods called on one State.
MaxStateCalls == 2

\* The longest slice handed to add_round_key, in words.
MaxSliceLen == 5

\* The block of the 16 bytes that follow 16 * k: all bytes for k in 0..15.
ramp_block(k) ==
  <<16 * k, 16 * k + 1, 16 * k + 2, 16 * k + 3,
    16 * k + 4, 16 * k + 5, 16 * k + 6, 16 * k + 7,
    16 * k + 8, 16 * k + 9, 16 * k + 10, 16 * k + 11,
    16 * k + 12, 16 * k + 13, 16 * k + 14, 16 * k + 15>>

StateBlocks == Blocks \cup { ramp_block(k) : k \in 0..15 }

StateInit ==
  /\ st_pc = "new"
  /\ st_input \in StateBlocks
  /\ st_words = Returned(<<>>)
  /\ st_calls = <<>>
  /\ st_round_keys = <<>>
  /\ st_output = <<>>
  /\ AesIdle
  /\ CallerIdle
  /\ CbcIdle
  /\ CtrIdle
  /\ Pkcs7Idle
  /\ GfIdle
  /\ MdIdle
  /\ RunIdle
  /\ KeIdle
  /\ NcIdle

stateFrame ==
  <<aesVars, callerVars, cbcVars, ctrVars, pkcs7Vars, gfVars, mdVars,
    runVars, keVars, ncVars>>

\* State::from(&input)
StateFrom ==
  /\ st_pc = "new"
  /\ st_pc' = "live"
  /\ st_words' = Returned(State_from(st_input))
  /\ UNCHANGED <<st_input, st_calls, st_round_keys, st_output, stateFrame>>

\* A method without arguments is called on the State.
StateCall(method, words) ==
  /\ st_pc = "live"
  /\ st_words.ok
  /\ Len(st_calls) < MaxStateCalls
  /\ st_calls' = Append(st_calls, method)
  /\ st_words' = Returned(words)
  /\ UNCHANGED <<st_pc, st_input, st_round_keys, st_output, stateFrame>>

SubBytes == StateCall("sub_bytes", sub_bytes(st_words.val))

InvSubBytes == StateCall("inv_sub_bytes", inv_sub_bytes(st_words.val))

ShiftRows == StateCall("shift_rows", shift_rows(st_words.val))

InvShiftRows == StateCall("inv_shift_rows", inv_shift_rows(st_words.val))

MixColumns == StateCall("mix_columns", mix_columns(st_words.val))

InvMixColumns == StateCall("inv_mix_columns", inv_mix_columns(st_words.val))

\* add_round_key(&round_keys) with a slice of any length up to MaxSliceLen,
\* in a build with or without debug assertions.
AddRoundKey ==
  /\ st_pc = "live"
  /\ st_words.ok
  /\ Len(st_calls) < MaxStateCalls
  /\ \E n \in 0..MaxSliceLen, debug_assertions \in BOOLEAN :
       /\ st_round_keys' = Append(st_round_keys, raw_round_keys(n))
       /\ st_words' = State_add_round_key(st_words.val, raw_round_keys(n),
                                          debug_assertions)
  /\ st_calls' = Append(st_calls, "add_round_key")
  /\ UNCHANGED <<st_pc, st_input, st_output, stateFrame>>

\* state.into()
StateInto ==
  /\ st_pc = "live"
  /\ st_words.ok
  /\ st_pc' = "done"
  /\ st_output' = State_into(st_words.val)
  /\ UNCHANGED <<st_input, st_words, st_calls, st_round_keys, stateFrame>>

StateNext ==
  \/ StateFrom
  \/ SubBytes
  \/ InvSubBytes
  \/ ShiftRows
  \/ InvShiftRows
  \/ MixColumns
  \/ InvMixColumns
  \/ AddRoundKey
  \/ StateInto

SpecState == StateInit /\ [][StateNext]_vars

(***************************************************************************)
(* The Merkle-Damgard padding as a state machine: a caller builds the      *)
(* iterator over a message and calls next() until it has seen None         *)
(* MaxNones times.                                                         *)
(***************************************************************************)

\* The longest message handed to MDPadding512u32, in bytes.
MaxMdLen == 129

MdMessages == { make_message(n, n) : n \in 0..MaxMdLen }

MdInit ==
  /\ message \in MdMessages
  /\ init_vector = <<>>
  /\ keyed = "none"
  /\ md_pc = "start"
  /\ md_self = MDPadding512u32_new(<<>>)
  /\ md_items = <<>>
  /\ md_nones = 0
  /\ AesIdle
  /\ CbcIdle
  /\ CtrIdle
  /\ Pkcs7Idle
  /\ GfIdle
  /\ StateIdle
  /\ RunIdle
  /\ KeIdle
  /\ NcIdle

mdFrame ==
  <<aesVars, callerVars, cbcVars, ctrVars, pkcs7Vars, gfVars, stateVars,
    runVars, keVars, ncVars>>

\* MDPadding512u32::new(&message)
MdNew ==
  /\ md_pc = "start"
  /\ md_pc' = "iterating"
  /\ md_self' = MDPadding512u32_new(message)
  /\ UNCHANGED <<md_items, md_nones, mdFrame>>

\* next()
MdIterNext ==
  /\ md_pc = "iterating"
  /\ md_nones < MaxNones
  /\ LET next == MDPadding512u32_next(md_self)
     IN  /\ md_self' = next.self
         /\ md_items' = Append(md_items, next.item)
         /\ md_nones' = IF next.item = None THEN md_nones + 1 ELSE md_nones
  /\ UNCHANGED <<md_pc, mdFrame>>

MdNext ==
  \/ MdNew
  \/ MdIterNext

SpecMd == MdInit /\ [][MdNext]_vars

(***************************************************************************)
(* cipher as a state machine, one statement a step: the assertions and     *)
(* State::from, the initial round key, the loop of rounds, the final       *)
(* transformations and state.into().                                       *)
(***************************************************************************)

\* The round keys the callers bring: the schedules of the published keys
\* and slices of their own making, of sensical and other lengths.
RunRoundKeys ==
  { key_expansion_128(k) : k \in Keys128 } \cup
  { key_expansion_192(k) : k \in Keys192 } \cup
  { key_expansion_256(k) : k \in Keys256 } \cup
  { raw_round_keys(n) : n \in 0..MaxRoundKeys }

\* The blocks the callers bring: plaintexts and published ciphertexts.
RunBlocks == Blocks \cup {EXAMPLE_CIPHERTEXT, VECTORS_CIPHERTEXT_256}

RunInit ==
  /\ run_pc = "enter"
  /\ run_fn \in {"cipher", "inv_cipher"}
  /\ run_input \in RunBlocks
  /\ run_keys \in RunRoundKeys
  /\ run_n_r = 0
  /\ run_round = 0
  /\ run_state = <<>>
  /\ run_trace = <<>>
  /\ run_output = <<>>
  /\ AesIdle
  /\ CallerIdle
  /\ CbcIdle
  /\ CtrIdle
  /\ Pkcs7Idle
  /\ GfIdle
  /\ StateIdle
  /\ MdIdle
  /\ KeIdle
  /\ NcIdle

runFrame ==
  <<aesVars, callerVars, cbcVars, ctrVars, pkcs7Vars, gfVars, stateVars,
    mdVars, keVars, ncVars>>

\* A method of State called without round keys, and one called with
\* &round_keys[first..last].
called(method) == [method |-> method, slice |-> <<>>]
called_with(method, first, last) == [method |-> method, slice |-> <<first, last>>]

\* The State goes through `method`, which leaves `words`; `pc` is next.
RunStep(pc, entry, words) ==
  /\ run_pc' = pc
  /\ run_state' = words
  /\ run_trace' = Append(run_trace, entry)
  /\ UNCHANGED <<run_fn, run_input, run_keys, run_n_r, run_output, runFrame>>

\* The two assertions, n_r, State::from(input).
CipherEnter ==
  /\ run_fn = "cipher"
  /\ run_pc = "enter"
  /\ IF Len(run_keys) % N_B # 0 \/ ~(Len(run_keys) > N_B)
       THEN /\ run_pc' = "panicked"
            /\ UNCHANGED <<run_n_r, run_state>>
       ELSE /\ run_pc' = "initial_add_round_key"
            /\ run_n_r' = Len(run_keys) \div N_B - 1
            /\ run_state' = State_from(run_input)
  /\ UNCHANGED <<run_fn, run_input, run_keys, run_round, run_trace, run_output,
                 runFrame>>

\* state.add_round_key(&round_keys[0..N_B]), then round = 1
CipherInitialAddRoundKey ==
  /\ run_pc = "initial_add_round_key"
  /\ RunStep("for_round", called_with("add_round_key", 0, N_B),
             add_round_key(run_state, SubSeq(run_keys, 1, N_B)))
  /\ run_round' = 1

\* for round in 1..n_r
CipherForRound ==
  /\ run_pc = "for_round"
  /\ run_pc' = IF cipher_loop_continues(run_round, run_n_r)
                 THEN "sub_bytes" ELSE "final_sub_bytes"
  /\ UNCHANGED <<run_fn, run_input, run_keys, run_n_r, run_round, run_state,
                 run_trace, run_output, runFrame>>

CipherSubBytes ==
  /\ run_pc = "sub_bytes"
  /\ RunStep("shift_rows", called("sub_bytes"), sub_bytes(run_state))
  /\ UNCHANGED run_round

CipherShiftRows ==
  /\ run_pc = "shift_rows"
  /\ RunStep("mix_columns", called("shift_rows"), shift_rows(run_state))
  /\ UNCHANGED run_round

CipherMixColumns ==
  /\ run_pc = "mix_columns"
  /\ RunStep("add_round_key", called("mix_columns"), mix_columns(run_state))
  /\ UNCHANGED run_round

\* state.add_round_key(&round_keys[(round*N_B)..((round+1)*N_B)]), and the
\* loop variable moves on.
CipherAddRoundKey ==
  /\ run_pc = "add_round_key"
  /\ RunStep("for_round",
             called_with("add_round_key", run_round * N_B,
                         (run_round + 1) * N_B),
             add_round_key(run_state, round_key(run_keys, run_round)))
  /\ run_round' = run_round + 1

CipherFinalSubBytes ==
  /\ run_pc = "final_sub_bytes"
  /\ RunStep("final_shift_rows", called("sub_bytes"), sub_bytes(run_state))
  /\ UNCHANGED run_round

CipherFinalShiftRows ==
  /\ run_pc = "final_shift_rows"
  /\ RunStep("final_add_round_key", called("shift_rows"),
             shift_rows(run_state))
  /\ UNCHANGED run_round

\* state.add_round_key(&round_keys[(n_r*N_B)..(n_r+1)*N_B])
CipherFinalAddRoundKey ==
  /\ run_pc = "final_add_round_key"
  /\ RunStep("into",
             called_with("add_round_key", run_n_r * N_B, (run_n_r + 1) * N_B),
             add_round_key(run_state, round_key(run_keys, run_n_r)))
  /\ UNCHANGED run_round

\* state.into()
CipherInto ==
  /\ run_pc = "into"
  /\ run_pc' = "returned"
  /\ run_output' = State_into(run_state)
  /\ UNCHANGED <<run_fn, run_input, run_keys, run_n_r, run_round, run_state,
                 run_trace, runFrame>>

(***************************************************************************)
(* inv_cipher as a state machine, one statement a step.                    *)
(***************************************************************************)

\* A mutant of inv_cipher_loop_continues: the range is (0..n_r).rev().
inv_cipher_loop_down_to_zero(round) == round >= 0

\* for round in (1..n_r).rev(): the loop variable starts at n_r - 1 and the
\* body runs while it is in 1..n_r.
inv_cipher_loop_continues(round) == round >= 1

\* The two assertions, n_r, State::from(input).
InvCipherEnter ==
  /\ run_fn = "inv_cipher"
  /\ run_pc = "enter"
  /\ IF Len(run_keys) % N_B # 0 \/ ~(Len(run_keys) > N_B)
       THEN /\ run_pc' = "panicked"
            /\ UNCHANGED <<run_n_r, run_state>>
       ELSE /\ run_pc' = "inv_initial_add_round_key"
            /\ run_n_r' = Len(run_keys) \div N_B - 1
            /\ run_state' = State_from(run_input)
  /\ UNCHANGED <<run_fn, run_input, run_keys, run_round, run_trace, run_output,
                 runFrame>>

\* state.add_round_key(&round_keys[(n_r*N_B)..(n_r+1)*N_B]), then the
\* reversed range starts at n_r - 1.
InvCipherInitialAddRoundKey ==
  /\ run_pc = "inv_initial_add_round_key"
  /\ RunStep("inv_for_round",
             called_with("add_round_key", run_n_r * N_B, (run_n_r + 1) * N_B),
             add_round_key(run_state, round_key(run_keys, run_n_r)))
  /\ run_round' = run_n_r - 1

\* for round in (1..n_r).rev()
InvCipherForRound ==
  /\ run_pc = "inv_for_round"
  /\ run_pc' = IF inv_cipher_loop_continues(run_round)
                 THEN "inv_shift_rows" ELSE "inv_final_shift_rows"
  /\ UNCHANGED <<run_fn, run_input, run_keys, run_n_r, run_round, run_state,
                 run_trace, run_output, runFrame>>

InvCipherShiftRows ==
  /\ run_pc = "inv_shift_rows"
  /\ RunStep("inv_sub_bytes", called("inv_shift_rows"),
             inv_shift_rows(run_state))
  /\ UNCHANGED run_round

InvCipherSubBytes ==
  /\ run_pc = "inv_sub_bytes"
  /\ RunStep("inv_add_round_key", called("inv_sub_bytes"),
             inv_sub_bytes(run_state))
  /\ UNCHANGED run_round

\* state.add_round_key(&round_keys[(round*N_B)..((round+1)*N_B)])
InvCipherAddRoundKey ==
  /\ run_pc = "inv_add_round_key"
  /\ RunStep("inv_mix_columns",
             called_with("add_round_key", run_round * N_B,
                         (run_round + 1) * N_B),
             add_round_key(run_state, round_key(run_keys, run_round)))
  /\ UNCHANGED run_round

\* state.inv_mix_columns(), and the reversed range moves down.
InvCipherMixColumns ==
  /\ run_pc = "inv_mix_columns"
  /\ RunStep("inv_for_round", called("inv_mix_columns"),
             inv_mix_columns(run_state))
  /\ run_round' = run_round - 1

InvCipherFinalShiftRows ==
  /\ run_pc = "inv_final_shift_rows"
  /\ RunStep("inv_final_sub_bytes", called("inv_shift_rows"),
             inv_shift_rows(run_state))
  /\ UNCHANGED run_round

InvCipherFinalSubBytes ==
  /\ run_pc = "inv_final_sub_bytes"
  /\ RunStep("inv_final_add_round_key", called("inv_sub_bytes"),
             inv_sub_bytes(run_state))
  /\ UNCHANGED run_round

\* state.add_round_key(&round_keys[0..N_B])
InvCipherFinalAddRoundKey ==
  /\ run_pc = "inv_final_add_round_key"
  /\ RunStep("inv_into", called_with("add_round_key", 0, N_B),
             add_round_key(run_state, SubSeq(run_keys, 1, N_B)))
  /\ UNCHANGED run_round

\* state.into()
InvCipherInto ==
  /\ run_pc = "inv_into"
  /\ run_pc' = "returned"
  /\ run_output' = State_into(run_state)
  /\ UNCHANGED <<run_fn, run_input, run_keys, run_n_r, run_round, run_state,
                 run_trace, runFrame>>

RunNext ==
  \/ CipherEnter
  \/ CipherInitialAddRoundKey
  \/ CipherForRound
  \/ CipherSubBytes
  \/ CipherShiftRows
  \/ CipherMixColumns
  \/ CipherAddRoundKey
  \/ CipherFinalSubBytes
  \/ CipherFinalShiftRows
  \/ CipherFinalAddRoundKey
  \/ CipherInto
  \/ InvCipherEnter
  \/ InvCipherInitialAddRoundKey
  \/ InvCipherForRound
  \/ InvCipherShiftRows
  \/ InvCipherSubBytes
  \/ InvCipherAddRoundKey
  \/ InvCipherMixColumns
  \/ InvCipherFinalShiftRows
  \/ InvCipherFinalSubBytes
  \/ InvCipherFinalAddRoundKey
  \/ InvCipherInto

SpecRun == RunInit /\ [][RunNext]_vars

(***************************************************************************)
(* key_expansion as a state machine, one word of w a step, called by       *)
(* key_expansion_128, key_expansion_192 and key_expansion_256.             *)
(***************************************************************************)

\* The keys the callers bring, and the all-zero and all-ones keys.
KeKeys ==
  Keys128 \cup Keys192 \cup Keys256 \cup
  { [i \in 1..n |-> b] : n \in {16, 24, 32}, b \in {0, 255} }

\* result.len() in key_expansion_128, _192 and _256, by the type of the key.
ke_result_len(key) ==
  IF Len(key) = 16 THEN N_B * (10 + 1)
  ELSE IF Len(key) = 24 THEN N_B * (12 + 1)
  ELSE N_B * (14 + 1)

KeInit ==
  /\ ke_pc = "enter"
  /\ ke_key \in KeKeys
  /\ ke_w_len = ke_result_len(ke_key)
  /\ ke_w = <<>>
  /\ ke_i = 0
  /\ ke_lookups = <<>>
  /\ AesIdle
  /\ CallerIdle
  /\ CbcIdle
  /\ CtrIdle
  /\ Pkcs7Idle
  /\ GfIdle
  /\ StateIdle
  /\ MdIdle
  /\ RunIdle
  /\ NcIdle

keFrame ==
  <<aesVars, callerVars, cbcVars, ctrVars, pkcs7Vars, gfVars, stateVars,
    mdVars, runVars, ncVars>>

ke_n_k == Len(ke_key) \div 4
ke_n_r == ke_n_k + 6

\* The two assertions, n_k, n_r and the table r_con.
KeEnter ==
  /\ ke_pc = "enter"
  /\ ke_pc' = IF Len(ke_key) % 4 # 0 \/ ke_w_len # N_B * (ke_n_r + 1)
                THEN "panicked" ELSE "key_words"
  /\ UNCHANGED <<ke_key, ke_w_len, ke_w, ke_i, ke_lookups, keFrame>>

\* for i in 0..n_k { w[i] = GFWord::new(key[4*i], ...) }
KeKeyWord ==
  /\ ke_pc = "key_words"
  /\ IF ke_i < ke_n_k
       THEN /\ ke_w' = ke_w \o key_words(ke_key, ke_i, ke_i + 1)
            /\ ke_i' = ke_i + 1
            /\ UNCHANGED ke_pc
       ELSE /\ ke_pc' = "expand"
            /\ ke_i' = ke_n_k
            /\ UNCHANGED ke_w
  /\ UNCHANGED <<ke_key, ke_w_len, ke_lookups, keFrame>>

\* for i in n_k..N_B*(n_r+1) { ... }: r_con[i/n_k] panics when the index
\* is not one of the table.
KeExpandWord ==
  /\ ke_pc = "expand"
  /\ IF ke_i < N_B * (ke_n_r + 1)
       THEN IF ke_i % ke_n_k = 0
              THEN LET index == r_con_index(ke_i, ke_n_k)
                   IN  /\ ke_lookups' = Append(ke_lookups, index)
                       /\ IF index \in 0..(Len(r_con) - 1)
                            THEN /\ ke_w' = Append(ke_w,
                                             expand_word(ke_w, ke_i, ke_n_k))
                                 /\ ke_i' = ke_i + 1
                                 /\ UNCHANGED ke_pc
                            ELSE /\ ke_pc' = "panicked"
                                 /\ UNCHANGED <<ke_w, ke_i>>
              ELSE /\ ke_w' = Append(ke_w, expand_word(ke_w, ke_i, ke_n_k))
                   /\ ke_i' = ke_i + 1
                   /\ UNCHANGED <<ke_pc, ke_lookups>>
       ELSE /\ ke_pc' = "returned"
            /\ UNCHANGED <<ke_w, ke_i, ke_lookups>>
  /\ UNCHANGED <<ke_key, ke_w_len, keFrame>>

KeNext ==
  \/ KeEnter
  \/ KeKeyWord
  \/ KeExpandWord

SpecKe == KeInit /\ [][KeNext]_vars

(***************************************************************************)
(* ctr_128u8 with the closure next_counter one iteration of its loop a     *)
(* step.  The function runs on until it returns: its steps are taken as    *)
(* long as there is one to take.                                           *)
(***************************************************************************)

\* The counter with its last k bytes 0xFF and the others 0x01.
counter_with_carries(k) ==
  [i \in 1..BLOCK_LEN_128_U8 |-> IF i > BLOCK_LEN_128_U8 - k THEN 255 ELSE 1]

\* The IVs: those of CtrInitVectors and one for every length of carry.
NcInitVectors ==
  CtrInitVectors \cup { counter_with_carries(k) : k \in 0..BLOCK_LEN_128_U8 }

\* The inputs: no chunk, a partial one, a whole one, two and a partial one.
NcMessages == { m \in Messages : Len(m) \in {0, 5, 16, 33} }

NcInit ==
  /\ message \in NcMessages
  /\ init_vector \in NcInitVectors
  /\ keyed \in KeyedCiphers
  /\ ctr_pc = "start"
  /\ ctr_pass = 0
  /\ ctr_input = <<>>
  /\ ctr_rest = <<>>
  /\ ctr_counter = <<>>
  /\ ctr_counters = <<>>
  /\ ctr_output = <<>>
  /\ nc_pc = "idle"
  /\ nc_old_counter = <<>>
  /\ nc_index = 0
  /\ nc_visited = 0
  /\ AesIdle
  /\ CbcIdle
  /\ Pkcs7Idle
  /\ GfIdle
  /\ StateIdle
  /\ MdIdle
  /\ RunIdle
  /\ KeIdle

ncFrame ==
  <<aesVars, callerVars, cbcVars, pkcs7Vars, gfVars, stateVars, mdVars,
    runVars, keVars>>

\* ctr_128u8(&keyed_cipher, init_vector, &message)
NcCtrCall ==
  /\ ctr_pc = "start"
  /\ nc_pc = "idle"
  /\ ctr_pc' = "ctr"
  /\ ctr_pass' = ctr_pass + 1
  /\ ctr_input' = message
  /\ ctr_rest' = message
  /\ ctr_counter' = init_vector
  /\ ctr_counters' = <<>>
  /\ ctr_output' = <<>>
  /\ UNCHANGED <<ncVars, ncFrame>>

\* The next chunk of the input: next_counter() is called and gets to its
\* loop, old_counter = counter and index = BLOCK_LEN_128_U8 - 1.
NcNextCounter ==
  /\ ctr_pc = "ctr"
  /\ nc_pc = "idle"
  /\ ctr_rest # <<>>
  /\ nc_pc' = "loop"
  /\ nc_old_counter' = ctr_counter
  /\ nc_index' = BLOCK_LEN_128_U8 - 1
  /\ nc_visited' = 0
  /\ UNCHANGED <<ctrVars, ncFrame>>

\* One iteration of the loop: the byte at index is incremented; the loop
\* ends without overflow, and goes to the byte before, or back to the last
\* one, otherwise.
NcCarry ==
  /\ nc_pc = "loop"
  /\ LET new_value == (ctr_counter[nc_index + 1] + 1) % 256
         overflow == ctr_counter[nc_index + 1] + 1 > 255
     IN  /\ ctr_counter' = [ctr_counter EXCEPT ![nc_index + 1] = new_value]
         /\ IF carry_loop_breaks(overflow)
              THEN /\ nc_pc' = "pad"
                   /\ UNCHANGED nc_index
              ELSE /\ nc_index' = IF nc_index # 0 THEN nc_index - 1
                                  ELSE BLOCK_LEN_128_U8 - 1
                   /\ UNCHANGED nc_pc
  /\ nc_visited' = nc_visited + 1
  /\ UNCHANGED <<ctr_pc, ctr_pass, ctr_input, ctr_rest, ctr_counters,
                 ctr_output, nc_old_counter, ncFrame>>

\* next_counter() has returned old_counter: the one-time pad and the XOR
\* of the chunk.
NcPad ==
  /\ nc_pc = "pad"
  /\ nc_pc' = "idle"
  /\ ctr_counters' = Append(ctr_counters, nc_old_counter)
  /\ ctr_output' = ctr_output \o
       ctr_chunk(keyed, nc_old_counter, chunk_of(ctr_rest, BLOCK_LEN_128_U8))
  /\ ctr_rest' = rest_of(ctr_rest, BLOCK_LEN_128_U8)
  /\ UNCHANGED <<ctr_pc, ctr_pass, ctr_input, ctr_counter, nc_old_counter,
                 nc_index, nc_visited, ncFrame>>

\* No chunk is left: output is returned.
NcCtrReturn ==
  /\ ctr_pc = "ctr"
  /\ nc_pc = "idle"
  /\ ctr_rest = <<>>
  /\ ctr_pc' = "ctr_returned"
  /\ UNCHANGED <<ctr_pass, ctr_input, ctr_rest, ctr_counter, ctr_counters,
                 ctr_output, ncVars, ncFrame>>

NcNext ==
  \/ NcCtrCall
  \/ NcNextCounter
  \/ NcCarry
  \/ NcPad
  \/ NcCtrReturn

\* Weak fairness of NcPad, its enabling condition written out: NcPad can
\* be taken, and changes nc_pc, exactly when nc_pc = "pad".
NcPadFair == []<>(nc_pc # "pad") \/ []<><<NcPad>>_vars

SpecNc ==
  /\ NcInit
  /\ [][NcNext]_vars
  /\ WF_vars(NcCtrCall \/ NcNextCounter \/ NcCarry \/ NcCtrReturn)
  /\ NcPadFair

(***************************************************************************)
(* Properties of the AES driver, checked under SpecAes                     *)
(***************************************************************************)

ValidRoundKeys == Len(round_keys) % 4 = 0 /\ Len(round_keys) > 4

\* C1: for every block and every slice of round keys whose length is a
\* multiple of 4 and greater than 4, inv_cipher undoes cipher under the
\* same round keys: inv_cipher(cipher(b, rk), rk) = b.
C1_InvCipherUndoesCipher ==
  (ValidRoundKeys /\ calls = <<"cipher", "inv_cipher">>)
    => text = Returned(input)

\* C1 witness: a round trip under the 60 round keys of a 256-bit key.
C1_Witness ==
  /\ calls = <<"cipher", "inv_cipher">>
  /\ Len(round_keys) = 60
  /\ text = Returned(input)

\* The published (key, plaintext, ciphertext) examples.
PublishedExamples ==
  { <<TEST_KEY_128, EXAMPLE_PLAINTEXT, EXAMPLE_CIPHERTEXT>>,
    <<VECTORS_KEY_128, VECTORS_PLAINTEXT, VECTORS_CIPHERTEXT_128>>,
    <<VECTORS_KEY_192, VECTORS_PLAINTEXT, VECTORS_CIPHERTEXT_192>>,
    <<VECTORS_KEY_256, VECTORS_PLAINTEXT, VECTORS_CIPHERTEXT_256>> }

\* C2: cipher maps each published plaintext, under the round keys expanded
\* from the published key, to the published ciphertext, and inv_cipher maps
\* that ciphertext back to the plaintext.
C2_PublishedCiphertexts ==
  \A ex \in PublishedExamples :
    (aes_key = ex[1] /\ input = ex[2]) =>
      /\ calls = <<"cipher">> => text = Returned(ex[3])
      /\ calls = <<"cipher", "inv_cipher">> => text = Returned(ex[2])

\* C2 witness: the appendix B example, encrypted.
C2_Witness ==
  /\ aes_key = TEST_KEY_128
  /\ input = EXAMPLE_PLAINTEXT
  /\ calls = <<"cipher">>
  /\ text = Returned(EXAMPLE_CIPHERTEXT)

\* C3: the three key expansions of the published keys are, word for word,
\* the published sequences of 44, 52 and 60 words.
C3_PublishedKeyExpansions ==
  /\ aes_key = TEST_KEY_128 => round_keys = TEST_EXPANDED_128
  /\ aes_key = TEST_KEY_192 => round_keys = TEST_EXPANDED_192
  /\ aes_key = TEST_KEY_256 => round_keys = TEST_EXPANDED_256

\* C3 witness: the 192-bit key has been expanded, into 52 words.
C3_Witness ==
  /\ aes_pc = "keyed"
  /\ aes_key = TEST_KEY_192
  /\ Len(round_keys) = 52

\* C7: cipher and inv_cipher panic exactly when the number of round keys is
\* not a multiple of 4 or is not greater than 4; with 8, 12, ..., 44, 52, 60
\* round keys they return a block.
C7_PanicOnBadRoundKeys ==
  /\ calls # <<>> => (text.ok <=> ValidRoundKeys)
  /\ text.ok => Len(text.val) = 16

\* C7 witness: inv_cipher has panicked on a slice of 4 round keys.
C7_Witness ==
  /\ calls = <<"inv_cipher">>
  /\ Len(round_keys) = 4
  /\ text = Panicked

(***************************************************************************)
(* Properties of CBC                                                       *)
(***************************************************************************)

\* Block i (from 1) of the ciphertext collected so far.
cbc_output_block(i) ==
  SubSeq(cbc_output, BLOCK_LEN_128_U8 * (i - 1) + 1, BLOCK_LEN_128_U8 * i)

\* C4: whatever the message (empty, a whole number of blocks, or neither),
\* the IV and the keyed cipher, inv_cbc_128u8 applied with the inverse
\* cipher and the same IV to what cbc_128u8 made of the PKCS#7-padded
\* message returns Some(message): stripping the padding undoes the padding.
C4_InvCbcUndoesCbcOfPadded ==
  (inv_source = "ciphertext" /\ cbc_pc = "inv_cbc_returned")
    => inv_result = Some(message)

\* A message of two whole blocks has come back from its three-block
\* ciphertext.
C4_Witness ==
  /\ inv_source = "ciphertext"
  /\ cbc_pc = "inv_cbc_returned"
  /\ Len(message) = 2 * BLOCK_LEN_128_U8
  /\ Len(inv_input) = 3 * BLOCK_LEN_128_U8
  /\ inv_calls = 3
  /\ inv_result = Some(message)

\* C6: inv_cbc_128u8 on an input whose length is no multiple of 16 returns
\* None; it does not panic and never calls the keyed inverse cipher.
C6_InvCbcNoneOnPartialBlock ==
  (inv_source # "none" /\ Len(inv_input) % 16 # 0)
    => /\ cbc_pc = "inv_cbc_returned"
       /\ inv_result = None
       /\ inv_calls = 0

\* inv_cbc_128u8 has turned down 17 bytes.
C6_Witness ==
  /\ inv_source = "message"
  /\ Len(inv_input) = 17
  /\ cbc_pc = "inv_cbc_returned"
  /\ inv_result = None

\* C10: while cbc_128u8 runs and when it has returned, the ciphertext is
\* one block per padded block taken, block i being the keyed cipher of
\* (padded block i XOR ciphertext block i-1), with the IV as ciphertext
\* block 0, and the cursor is the ciphertext block emitted last.
C10_CbcChainsOnPreviousCiphertext ==
  cbc_pc \in {"cbc", "cbc_returned"} =>
    /\ Len(cbc_output) = BLOCK_LEN_128_U8 * Len(cbc_blocks)
    /\ \A i \in 1..Len(cbc_blocks) :
         cbc_output_block(i) =
           keyed_cipher(keyed,
                        xor_zip(cbc_blocks[i],
                                IF i = 1 THEN init_vector
                                ELSE cbc_output_block(i - 1)))
    /\ cbc_last_ciphertext =
         IF cbc_blocks = <<>> THEN init_vector
         ELSE cbc_output_block(Len(cbc_blocks))

\* cbc_128u8 has emitted three blocks, the second unlike the first.
C10_Witness ==
  /\ cbc_pc = "cbc_returned"
  /\ Len(cbc_blocks) = 3
  /\ Len(cbc_output) = 3 * BLOCK_LEN_128_U8
  /\ cbc_last_ciphertext = cbc_output_block(3)
  /\ cbc_output_block(2) # cbc_output_block(1)

\* Block i (from 1) of the input of inv_cbc_128u8.
inv_input_block(i) ==
  SubSeq(inv_input, BLOCK_LEN_128_U8 * (i - 1) + 1, BLOCK_LEN_128_U8 * i)

\* The bytes inv_cbc_128u8 was called on, as the caller still holds them.
inv_caller_bytes ==
  IF inv_source = "ciphertext" THEN cbc_output ELSE message

\* C11: while inv_cbc_128u8 collects its blocks, plaintext block i is the
\* keyed inverse cipher of ciphertext block i, XOR ciphertext block i-1
\* (the IV for i = 1); the cursor is the ciphertext block consumed last,
\* as it was in the input; the input slice is what the caller handed over,
\* and the IV, taken by value, is the caller's.
C11_InvCbcChainsOnRawCiphertext ==
  cbc_pc = "inv_cbc" =>
    LET done == Len(inv_output_vec) \div BLOCK_LEN_128_U8
    IN  /\ Len(inv_output_vec) = BLOCK_LEN_128_U8 * done
        /\ Len(inv_rest) = Len(inv_input) - BLOCK_LEN_128_U8 * done
        /\ inv_calls = done
        /\ \A i \in 1..done :
             SubSeq(inv_output_vec, BLOCK_LEN_128_U8 * (i - 1) + 1,
                    BLOCK_LEN_128_U8 * i) =
               xor_zip(keyed_inv_cipher(keyed, inv_input_block(i)),
                       IF i = 1 THEN init_vector ELSE inv_input_block(i - 1))
        /\ inv_last_ciphertext =
             IF done = 0 THEN init_vector ELSE inv_input_block(done)
        /\ inv_input = inv_caller_bytes

\* Three ciphertext blocks are decrypted; the cursor is the third, which is
\* not the plaintext it gave.
C11_Witness ==
  /\ cbc_pc = "inv_cbc"
  /\ inv_source = "ciphertext"
  /\ inv_calls = 3
  /\ inv_rest = <<>>
  /\ inv_last_ciphertext = inv_input_block(3)
  /\ inv_last_ciphertext # SubSeq(inv_output_vec, 33, 48)

\* C12: inv_cbc_128u8, having collected the L > 0 decrypted bytes, returns
\* them without the last p, p being the last of them: L - p bytes, whatever
\* the other bytes removed are.
C12_InvCbcRemovesLastByteManyBytes ==
  (cbc_pc = "inv_cbc_returned" /\ inv_result # None /\ Len(inv_input) > 0)
    => LET L == Len(inv_output_vec)
           pad == inv_output_vec[L]
       IN  /\ inv_result.tag = "Some"
           /\ Len(inv_result.val) = L - pad
           /\ inv_result.val = SubSeq(inv_output_vec, 1, L - pad)

\* C27: for every ciphertext whose length is a multiple of 16, the empty
\* one and those whose last decrypted byte is 0 or larger than the length
\* included, inv_cbc_128u8 returns Some(plaintext): it never aborts on an
\* index out of bounds or an arithmetic underflow.
C27_InvCbcNeverAborts ==
  (cbc_pc = "inv_cbc_returned" /\ Len(inv_input) % BLOCK_LEN_128_U8 = 0)
    => /\ inv_result # Panic
       /\ inv_result.tag = "Some"

(***************************************************************************)
(* Properties of the GFByte operators                                      *)
(***************************************************************************)

\* C15: GFByte addition is commutative, associative and its own inverse;
\* GFByte multiplication is commutative and distributes over addition;
\* sums and products are bytes.
C15_GFByteFieldLaws ==
  /\ gf_pc \in {"added", "multiplied"} =>
       /\ gf_sums.ab = gf_sums.ba
       /\ gf_sums.ab_c = gf_sums.a_bc
       /\ gf_sums.aa = 0
       /\ gf_sums.ab \in 0..MaxByte
  /\ gf_pc = "multiplied" =>
       /\ gf_products.ab = gf_products.ba
       /\ gf_products.a_bc = gf_products.ab_ac
       /\ gf_products.ab \in 0..MaxByte

\* 0x57 * 0x83 = 0xc1 both ways, and 0x57 * (0x83 + 0xfe) was computed as a
\* product of a sum and as a sum of products.
C15_Witness ==
  /\ gf_pc = "multiplied"
  /\ gf_a = \h57
  /\ gf_b = \h83
  /\ gf_c = \hfe
  /\ gf_sums.ab = \hd4
  /\ gf_products.ab = \hc1
  /\ gf_products.ba = \hc1
  /\ gf_products.a_bc = gf_products.ab_ac

\* The product of two binary polynomials, bit i the coefficient of x^i.
RECURSIVE poly_mul(_, _)
poly_mul(a, b) ==
  IF b = 0 THEN 0
  ELSE xor(IF b % 2 = 1 THEN a ELSE 0, 2 * poly_mul(a, b \div 2))

TwoTo(n) == IF n = 0 THEN 1 ELSE 2 * (IF n = 1 THEN 1 ELSE
            2 * (IF n = 2 THEN 1 ELSE 2 * (IF n = 3 THEN 1 ELSE
            2 * (IF n = 4 THEN 1 ELSE 2 * (IF n = 5 THEN 1 ELSE
            2 * (IF n = 6 THEN 1 ELSE 2))))))

\* A polynomial of degree at most `degree` reduced modulo
\* x^8 + x^4 + x^3 + x + 1, the highest power first.
RECURSIVE poly_mod(_, _)
poly_mod(p, degree) ==
  IF degree < 8 THEN p
  ELSE LET m == 283 * TwoTo(degree - 8)
           top == (p \div (256 * TwoTo(degree - 8))) % 2
       IN  poly_mod(IF top = 1 THEN xor(p, m) ELSE p, degree - 1)

\* C23: for all bytes a and b, GFByte multiplication returns the product
\* of a and b as binary polynomials reduced modulo x^8 + x^4 + x^3 + x + 1
\* (0x57 * 0x83 = 0xc1, 0x57 * 0x13 = 0xfe), and no u8 operation in it
\* overflows: every product fits a byte, every shift is by less than 8.
C23_GFByteMulIsPolynomialProduct ==
  gf_pc = "multiplied" =>
    /\ gf_products.ab = poly_mod(poly_mul(gf_a, gf_b), 14)
    /\ (gf_a = \h57 /\ gf_b = \h83) => gf_products.ab = \hc1
    /\ (gf_a = \h57 /\ gf_b = \h13) => gf_products.ab = \hfe
    /\ \A o \in GFByteMul_operations(gf_a, gf_b) :
         /\ o.op = "*" => o.value \in 0..MaxByte
         /\ o.op \in {"<<", ">>"} => o.by < 8

\* C23 witness: 0x57 * 0x13 was computed, 0xfe; the polynomial product
\* 0x57 * 0x13 has degree 10 and had to be reduced.
C23_Witness ==
  /\ gf_pc = "multiplied"
  /\ gf_a = \h57
  /\ gf_b = \h13
  /\ gf_products.ab = \hfe
  /\ poly_mul(gf_a, gf_b) > MaxByte

(***************************************************************************)
(* Properties of the order of the transformations                          *)
(***************************************************************************)

\* SubBytes, ShiftRows, MixColumns, AddRoundKey(words 4r .. 4r+3) for the
\* rounds r = from .. to, in ascending order.
RECURSIVE full_rounds(_, _)
full_rounds(from, to) ==
  IF from > to THEN <<>>
  ELSE <<called("sub_bytes"), called("shift_rows"), called("mix_columns"),
         called_with("add_round_key", 4 * from, 4 * from + 4)>> \o
       full_rounds(from + 1, to)

\* The order FIPS-197 gives for Nr rounds.
cipher_order(Nr) ==
  <<called_with("add_round_key", 0, 4)>> \o
  full_rounds(1, Nr - 1) \o
  <<called("sub_bytes"), called("shift_rows"),
    called_with("add_round_key", 4 * Nr, 4 * Nr + 4)>>

\* C20: with 4 * (Nr + 1) round keys, what cipher has done to the State at
\* any point is the beginning of: AddRoundKey(words 0..3); for the rounds
\* 1 to Nr - 1 in ascending order SubBytes, ShiftRows, MixColumns,
\* AddRoundKey(words 4 * round .. 4 * round + 3); SubBytes, ShiftRows,
\* AddRoundKey(words 4 * Nr .. 4 * Nr + 3), without MixColumns; and all of
\* it when cipher returns, each slice of 4 words used once, in ascending
\* order.
C20_CipherOrderOfTransformations ==
  (run_fn = "cipher" /\ run_pc \notin {"enter", "panicked"}) =>
    LET Nr == Len(run_keys) \div 4 - 1
        order == cipher_order(Nr)
    IN  /\ Len(run_keys) = 4 * (Nr + 1)
        /\ Len(run_trace) <= Len(order)
        /\ run_trace = SubSeq(order, 1, Len(run_trace))
        /\ run_pc = "returned" =>
             /\ run_trace = order
             /\ Len(run_trace) = 4 * Nr
             /\ run_output = cipher(run_input, run_keys).val

\* cipher has returned the published ciphertext of the 192-bit key, after
\* 12 rounds: 13 slices of round keys, 11 MixColumns.
C20_Witness ==
  /\ run_fn = "cipher"
  /\ run_pc = "returned"
  /\ run_keys = key_expansion_192(VECTORS_KEY_192)
  /\ run_input = VECTORS_PLAINTEXT
  /\ run_output = VECTORS_CIPHERTEXT_192
  /\ Len(run_trace) = 48
  /\ run_trace[44] = called("mix_columns")
  /\ run_trace[47] = called("shift_rows")
  /\ run_trace[48] = called_with("add_round_key", 48, 52)

\* The calls one inverse round makes, and those of the rounds from `round`
\* down to 1.
inv_round_calls(round) ==
  <<called("inv_shift_rows"), called("inv_sub_bytes"),
    called_with("add_round_key", 4 * round, 4 * round + 4),
    called("inv_mix_columns")>>

RECURSIVE inv_full_rounds(_)
inv_full_rounds(round) ==
  IF round < 1 THEN <<>>
  ELSE inv_round_calls(round) \o inv_full_rounds(round - 1)

inv_cipher_order(Nr) ==
  <<called_with("add_round_key", 4 * Nr, 4 * Nr + 4)>>
    \o inv_full_rounds(Nr - 1)
    \o <<called("inv_shift_rows"), called("inv_sub_bytes"),
         called_with("add_round_key", 0, 4)>>

\* The slices of round keys a trace has used, in the order of their use.
slices_used(trace) ==
  LET with_keys == SelectSeq(trace, LAMBDA e : e.method = "add_round_key")
  IN  [i \in 1..Len(with_keys) |-> with_keys[i].slice]

\* C21: inv_cipher with 4*(Nr+1) round-key words applies to the State, in
\* this order: AddRoundKey with words 4*Nr..4*Nr+3; for round = Nr-1 down to
\* 1, InvShiftRows, InvSubBytes, AddRoundKey with words 4*round..4*round+3,
\* InvMixColumns; then InvShiftRows, InvSubBytes and AddRoundKey with words
\* 0..3.  A run under way has made a prefix of these calls, a run that
\* returned has made them all: every 4-word slice is used exactly once, in
\* descending order, and the block returned is the one inv_cipher computes.
C21_InvCipherOrderOfTransformations ==
  (run_fn = "inv_cipher" /\ run_pc \notin {"enter", "panicked"}) =>
    LET Nr == Len(run_keys) \div 4 - 1
        order == inv_cipher_order(Nr)
    IN  /\ Len(run_keys) = 4 * (Nr + 1)
        /\ Len(run_trace) <= Len(order)
        /\ run_trace = SubSeq(order, 1, Len(run_trace))
        /\ run_pc = "returned" =>
             /\ run_trace = order
             /\ slices_used(run_trace)
                  = [i \in 1..(Nr + 1) |->
                       <<4 * (Nr + 1 - i), 4 * (Nr + 1 - i) + 4>>]
             /\ run_output = inv_cipher(run_input, run_keys).val

\* C21 witness: inv_cipher returned the published plaintext under the 60
\* round keys of the 256-bit key, after 14 uses of the round keys.
C21_Witness ==
  /\ run_fn = "inv_cipher"
  /\ run_pc = "returned"
  /\ run_keys = key_expansion_256(VECTORS_KEY_256)
  /\ run_input = VECTORS_CIPHERTEXT_256
  /\ run_output = VECTORS_PLAINTEXT
  /\ Len(run_trace) = 56
  /\ run_trace[1] = called_with("add_round_key", 56, 60)
  /\ run_trace[5] = called("inv_mix_columns")
  /\ run_trace[56] = called_with("add_round_key", 0, 4)

(***************************************************************************)
(* Properties of key_expansion, checked under SpecKe                       *)
(***************************************************************************)

\* The functions of the key schedule, on words of four bytes.
XorWord(a, b) == [k \in 1..4 |-> xor(a[k], b[k])]
SubWord(word) == [k \in 1..4 |-> ENC_SBOX[word[k] + 1]]
RotWord(word) == <<word[2], word[3], word[4], word[1]>>
Rcon(j) == r_con[j + 1]

\* Word i of the schedule of a key of Nk words, from the words before it;
\* w[i + 1] is word i.
schedule_word(key, w, i, Nk) ==
  IF i < Nk
    THEN <<key[4 * i + 1], key[4 * i + 2], key[4 * i + 3], key[4 * i + 4]>>
    ELSE LET t == IF i % Nk = 0
                    THEN XorWord(SubWord(RotWord(w[i])), Rcon(i \div Nk))
                  ELSE IF Nk > 6 /\ i % Nk = 4 THEN SubWord(w[i])
                  ELSE w[i]
         IN  XorWord(w[i - Nk + 1], t)

\* C22: for a key of Nk words, Nk in {4, 6, 8}, key_expansion fills exactly
\* 4*(Nk+7) words: words 0..Nk-1 are the key bytes sliced four at a time in
\* order, and for every i >= Nk, w[i] = w[i-Nk] XOR t, with
\* t = SubWord(RotWord(w[i-1])) XOR Rcon[i/Nk] if i mod Nk = 0,
\* t = SubWord(w[i-1]) if Nk > 6 and i mod Nk = 4, and t = w[i-1] otherwise.
\* Every word written so far obeys this, and at return all 4*(Nk+7) are
\* written and are what key_expansion computes.
C22_KeyExpansionRecurrence ==
  ke_pc \notin {"off", "enter", "panicked"} =>
    LET Nk == Len(ke_key) \div 4
    IN  /\ Nk \in {4, 6, 8}
        /\ Len(ke_w) <= 4 * (Nk + 7)
        /\ \A i \in 0..(Len(ke_w) - 1) :
             ke_w[i + 1] = schedule_word(ke_key, ke_w, i, Nk)
        /\ ke_pc = "returned" =>
             /\ Len(ke_w) = 4 * (Nk + 7)
             /\ ke_w_len = 4 * (Nk + 7)
             /\ key_expansion(ke_key, ke_w_len) = Returned(ke_w)

\* C22 witness: the 60 words of the published 256-bit key are written,
\* word 12 being one of those made with SubWord alone.
C22_Witness ==
  /\ ke_pc = "returned"
  /\ ke_key = TEST_KEY_256
  /\ ke_w = TEST_EXPANDED_256
  /\ Len(ke_w) = 60
  /\ ke_w[13] = XorWord(ke_w[5], SubWord(ke_w[12]))
  /\ ke_w[13] # XorWord(ke_w[5], ke_w[12])

\* x^n in GF(2^8): n doublings of 1, reduced by x^8 + x^4 + x^3 + x + 1.
RECURSIVE power_of_x(_)
power_of_x(n) ==
  IF n = 0 THEN 1
  ELSE LET p == power_of_x(n - 1)
       IN  IF p < 128 THEN 2 * p ELSE xor(2 * p - 256, 27)

\* The largest index of a round constant a key of Nk words asks for.
last_r_con_index(Nk) ==
  IF Nk = 4 THEN 10 ELSE IF Nk = 6 THEN 8 ELSE 7

\* C29: during key_expansion for Nk in {4, 6, 8}, every lookup of a round
\* constant uses an index i/Nk in 1..10, at most 10, 8 and 7 respectively:
\* the table of 11 entries is never indexed out of bounds (key_expansion
\* does not panic) and its entry 0 is never used; entry j, 1 <= j <= 10,
\* holds x^(j-1) in its first byte and zeros elsewhere.
C29_RoundConstantLookupsInRange ==
  ke_pc # "off" =>
    LET Nk == Len(ke_key) \div 4
    IN  /\ Nk \in {4, 6, 8}
        /\ ke_pc # "panicked"
        /\ Len(r_con) = 11
        /\ \A j \in 1..10 : r_con[j + 1] = <<power_of_x(j - 1), 0, 0, 0>>
        /\ \A k \in 1..Len(ke_lookups) :
             /\ ke_lookups[k] = k
             /\ ke_lookups[k] \in 1..last_r_con_index(Nk)
             /\ ke_lookups[k] + 1 \in 2..Len(r_con)
        /\ ke_pc = "returned" => Len(ke_lookups) = last_r_con_index(Nk)

\* C29 witness: the expansion of a 128-bit key returned after reading the
\* entries 1 to 10, that of x^9 = 0x36 last.
C29_Witness ==
  /\ ke_pc = "returned"
  /\ Len(ke_key) = 16
  /\ ke_lookups = <<1, 2, 3, 4, 5, 6, 7, 8, 9, 10>>
  /\ r_con[ke_lookups[10] + 1] = <<54, 0, 0, 0>>

(***************************************************************************)
(* Properties of State                                                     *)
(***************************************************************************)

\* C16: the word (02, 01, 01, 03) of mix_columns times the word
\* (0e, 09, 0d, 0b) of inv_mix_columns is the word (1, 0, 0, 0); on every
\* State, inv_mix_columns after mix_columns, and mix_columns after
\* inv_mix_columns, give the State back.
C16_MixColumnsInverse ==
  st_calls \in {<<"mix_columns", "inv_mix_columns">>,
                <<"inv_mix_columns", "mix_columns">>}
    => /\ GFWordMul(GFWord_new(2, 1, 1, 3), GFWord_new(14, 9, 13, 11))
            = GFWord_new(1, 0, 0, 0)
       /\ st_words = Returned(State_from(st_input))

\* A State that mix_columns changed has come back through inv_mix_columns.
C16_Witness ==
  /\ st_calls = <<"mix_columns", "inv_mix_columns">>
  /\ st_input = EXAMPLE_PLAINTEXT
  /\ mix_columns(State_from(st_input)) # State_from(st_input)
  /\ st_words = Returned(State_from(st_input))

\* C17: DEC_SBOX[ENC_SBOX[x]] = x and ENC_SBOX[DEC_SBOX[x]] = x for every
\* byte x, both tables holding every byte once; on every State,
\* inv_sub_bytes after sub_bytes gives the State back.
C17_SBoxesAreInverse ==
  st_calls = <<"sub_bytes", "inv_sub_bytes">>
    => /\ \A x \in 0..MaxByte :
            /\ DEC_SBOX[ENC_SBOX[x + 1] + 1] = x
            /\ ENC_SBOX[DEC_SBOX[x + 1] + 1] = x
       /\ Len(ENC_SBOX) = MaxByte + 1
       /\ Len(DEC_SBOX) = MaxByte + 1
       /\ {ENC_SBOX[i] : i \in 1..Len(ENC_SBOX)} = 0..MaxByte
       /\ {DEC_SBOX[i] : i \in 1..Len(DEC_SBOX)} = 0..MaxByte
       /\ st_words = Returned(State_from(st_input))

\* The State of the bytes 0x50..0x5f, which sub_bytes changed, has come
\* back through inv_sub_bytes.
C17_Witness ==
  /\ st_calls = <<"sub_bytes", "inv_sub_bytes">>
  /\ st_input = ramp_block(5)
  /\ sub_bytes(State_from(st_input)) # State_from(st_input)
  /\ st_words = Returned(State_from(st_input))

\* C18: add_round_key aborts whenever the slice it is given is not of
\* exactly 4 words: no call with a shorter or longer slice returns.
C18_AddRoundKeyAbortsOnBadSlice ==
  (st_calls # <<>> /\ st_calls[Len(st_calls)] = "add_round_key"
     /\ Len(st_round_keys[Len(st_round_keys)]) # N_B)
    => ~st_words.ok

\* C24: shift_rows moves the byte at row r, column c to row r, column
\* (c - r) mod 4: row 0 is unmoved and no byte changes row; inv_shift_rows
\* moves it to column (c + r) mod 4; shift_rows after inv_shift_rows and
\* inv_shift_rows after shift_rows give the State back.  Column c is word
\* c of the State and row r its byte r.
C24_ShiftRowsRotatesRowsLeft ==
  LET before == State_from(st_input)
  IN  /\ st_calls = <<"shift_rows">> =>
           /\ st_words.ok
           /\ \A r \in 0..3, c \in 0..3 :
                st_words.val[((c + 4 - r) % 4) + 1][r + 1]
                  = before[c + 1][r + 1]
           /\ \A c \in 0..3 : st_words.val[c + 1][1] = before[c + 1][1]
      /\ st_calls = <<"inv_shift_rows">> =>
           /\ st_words.ok
           /\ \A r \in 0..3, c \in 0..3 :
                st_words.val[((c + r) % 4) + 1][r + 1] = before[c + 1][r + 1]
      /\ st_calls \in {<<"shift_rows", "inv_shift_rows">>,
                       <<"inv_shift_rows", "shift_rows">>}
           => st_words = Returned(before)

\* C24 witness: shift_rows on the State of the bytes 0..15 left the
\* columns (0, 5, 10, 15), (4, 9, 14, 3), (8, 13, 2, 7) and (12, 1, 6, 11).
C24_Witness ==
  /\ st_calls = <<"shift_rows">>
  /\ st_input = ramp_block(0)
  /\ st_words = Returned(<<<<0, 5, 10, 15>>, <<4, 9, 14, 3>>,
                           <<8, 13, 2, 7>>, <<12, 1, 6, 11>>>>)

\* C25: add_round_key with a key k of 4 words replaces word i of the State
\* by s[i] XOR k[i], in every build, and leaves k as it was; applied twice
\* with the same k it gives the State back.
C25_AddRoundKeyXorsWordByWord ==
  LET before == State_from(st_input)
  IN  /\ (st_calls = <<"add_round_key">> /\ Len(st_round_keys[1]) = 4) =>
           /\ st_words.ok
           /\ \A i \in 1..4 :
                st_words.val[i] = XorWord(before[i], st_round_keys[1][i])
           /\ st_round_keys[1] = raw_round_keys(4)
      /\ (st_calls = <<"add_round_key", "add_round_key">>
            /\ Len(st_round_keys[1]) = 4
            /\ st_round_keys[2] = st_round_keys[1])
           => st_words = Returned(before)

\* C25 witness: a State that add_round_key changed has come back through
\* add_round_key with the same 4 words.
C25_Witness ==
  /\ st_calls = <<"add_round_key", "add_round_key">>
  /\ st_round_keys = <<raw_round_keys(4), raw_round_keys(4)>>
  /\ st_input = EXAMPLE_PLAINTEXT
  /\ add_round_key(State_from(st_input), raw_round_keys(4))
       # State_from(st_input)
  /\ st_words = Returned(State_from(st_input))

\* C26: State::from puts byte 4c + r of the block at row r of word c, and
\* into() reads the State in the same order: a State turned into a block
\* without a call in between gives the bytes it was built from.
C26_FromAndIntoAreColumnMajor ==
  /\ st_pc = "live" /\ st_calls = <<>> =>
       \A c \in 0..3, r \in 0..3 :
         st_words.val[c + 1][r + 1] = st_input[4 * c + r + 1]
  /\ st_pc = "done" =>
       /\ Len(st_output) = 16
       /\ \A c \in 0..3, r \in 0..3 :
            st_output[4 * c + r + 1] = st_words.val[c + 1][r + 1]
       /\ st_calls = <<>> => st_output = st_input

\* C26 witness: the bytes 16..31 went into a State, whose word 1 holds
\* 20..23, and came out as they were.
C26_Witness ==
  /\ st_pc = "done"
  /\ st_calls = <<>>
  /\ st_input = ramp_block(1)
  /\ st_words.val[2] = <<20, 21, 22, 23>>
  /\ st_output = st_input

(***************************************************************************)
(* Properties of the PKCS#7 padding                                        *)
(***************************************************************************)

\* The blocks among the first n items returned by next(), concatenated.
RECURSIVE pkcs7_yielded_bytes(_)
pkcs7_yielded_bytes(n) ==
  IF n = 0 THEN <<>>
  ELSE pkcs7_yielded_bytes(n - 1) \o
       (IF pkcs7_items[n].tag = "Some" THEN pkcs7_items[n].val ELSE <<>>)

\* The number of blocks yielded so far.
pkcs7_yielded_blocks == Len(pkcs7_items) - pkcs7_nones

\* p bytes of value p after the message, p = 16 - (len mod 16).
pkcs7_expected ==
  LET p == 16 - (Len(message) % 16)
  IN  message \o [i \in 1..p |-> p]

\* C13: the blocks yielded so far are, concatenated, the beginning of the
\* message followed by p bytes of value p, p = 16 - (len mod 16), and all
\* of it once next() has returned None; the whole chunks of the message
\* are therefore yielded as they are, and a message that is a whole number
\* of blocks (the empty one too) gets one more block of sixteen 0x10.
C13_Pkcs7YieldsMessageThenPadding ==
  pkcs7_pc = "iterating" =>
    LET yielded == pkcs7_yielded_bytes(Len(pkcs7_items))
    IN  /\ Len(yielded) = 16 * pkcs7_yielded_blocks
        /\ Len(yielded) <= Len(pkcs7_expected)
        /\ yielded = SubSeq(pkcs7_expected, 1, Len(yielded))
        /\ pkcs7_nones > 0 => yielded = pkcs7_expected

\* A message of 32 bytes has been yielded in three blocks, the third 0x10
\* sixteen times, and next() has then returned None.
C13_Witness ==
  /\ pkcs7_pc = "iterating"
  /\ Len(message) = 32
  /\ Len(pkcs7_items) = 4
  /\ pkcs7_items[1] = Some(SubSeq(message, 1, 16))
  /\ pkcs7_items[3] =
       Some(<<16, 16, 16, 16, 16, 16, 16, 16, 16, 16, 16, 16, 16, 16, 16, 16>>)
  /\ pkcs7_items[4] = None

\* C14: from new() on, size_hint reports len div 16 + 1 as lower and as
\* upper bound; no more blocks than that are ever yielded, and exactly
\* that many once next() has returned None; the padded length is then a
\* positive multiple of 16 greater than the length of the message.
C14_Pkcs7SizeHintIsBlockCount ==
  pkcs7_pc = "iterating" =>
    LET hint == PKCS7Padding128u8_size_hint(pkcs7_self)
        padded_len == 16 * pkcs7_yielded_blocks
    IN  /\ hint[1] = Len(message) \div 16 + 1
        /\ hint[2] = Some(hint[1])
        /\ pkcs7_yielded_blocks <= hint[1]
        /\ pkcs7_nones > 0 =>
             /\ pkcs7_yielded_blocks = hint[1]
             /\ padded_len > 0
             /\ padded_len % 16 = 0
             /\ padded_len > Len(message)

\* The iterator over 16 bytes reported two blocks, has yielded two and is
\* exhausted.
C14_Witness ==
  /\ pkcs7_pc = "iterating"
  /\ Len(message) = 16
  /\ PKCS7Padding128u8_size_hint(pkcs7_self)[1] = 2
  /\ pkcs7_yielded_blocks = 2
  /\ pkcs7_nones = 1

\* The calls of next() that returned a block, and those whose block holds
\* padding bytes: block i holds the bytes 16 * (i - 1) + 1 .. 16 * i of the
\* padded message, padding from byte Len(message) + 1 on.
pkcs7_block_calls ==
  { i \in 1..Len(pkcs7_items) : pkcs7_items[i].tag = "Some" }

pkcs7_padded_calls == { i \in pkcs7_block_calls : 16 * i > Len(message) }

\* C28: for every message, in any sequence of next() calls, at most one
\* block with padding bytes has been yielded and no block follows it;
\* final_block_sent tells whether it has been; once next() has returned
\* None, exactly one such block was yielded, the last, final_block_sent is
\* true and every later next() has returned None.
C28_Pkcs7OnePaddedBlockThenNone ==
  pkcs7_pc = "iterating" =>
    /\ Cardinality(pkcs7_padded_calls) <= 1
    /\ \A i \in pkcs7_padded_calls : \A j \in pkcs7_block_calls : j <= i
    /\ pkcs7_self.final_block_sent = (pkcs7_padded_calls # {})
    /\ \A i \in 1..Len(pkcs7_items) :
         pkcs7_items[i] = None =>
           /\ pkcs7_self.final_block_sent
           /\ Cardinality(pkcs7_padded_calls) = 1
           /\ \A j \in pkcs7_padded_calls :
                /\ j = i - 1 \/ pkcs7_items[i - 1] = None
                /\ pkcs7_items[j].val[16] = 16 - (Len(message) % 16)
           /\ \A j \in i..Len(pkcs7_items) : pkcs7_items[j] = None

\* C28 witness: a message of 20 bytes gave a whole block, a block of 4
\* bytes and 12 bytes of padding, then None twice.
C28_Witness ==
  /\ pkcs7_pc = "iterating"
  /\ Len(message) = 20
  /\ Len(pkcs7_items) = 4
  /\ pkcs7_padded_calls = {2}
  /\ pkcs7_items[2].val[5] = 12
  /\ pkcs7_items[3] = None
  /\ pkcs7_items[4] = None
  /\ pkcs7_self.final_block_sent

(***************************************************************************)
(* Properties of the Merkle-Damgard padding                                *)
(***************************************************************************)

\* The four bytes of a u32, the most significant first.
u32_be_bytes(w) == <<w[1] \div 256, w[1] % 256, w[2] \div 256, w[2] % 256>>

\* The bytes of the first k words of a block, each read big-endian.
RECURSIVE md_block_bytes(_, _)
md_block_bytes(block, k) ==
  IF k = 0 THEN <<>>
  ELSE md_block_bytes(block, k - 1) \o u32_be_bytes(block[k])

\* The bytes of the blocks among the first n items returned by next().
RECURSIVE md_yielded_bytes(_)
md_yielded_bytes(n) ==
  IF n = 0 THEN <<>>
  ELSE md_yielded_bytes(n - 1) \o
       (IF md_items[n].tag = "Some"
          THEN md_block_bytes(md_items[n].val, 16) ELSE <<>>)

md_yielded_blocks == Len(md_items) - md_nones

\* The message, 0x80, zero bytes up to 8 short of the smallest multiple of
\* 64 that holds n + 9 bytes, then 8 * n in 8 bytes, big-endian.
md_expected ==
  LET n == Len(message)
      total == 64 * ((n + 9 + 63) \div 64)
      bits == 8 * n
  IN  message \o <<128>> \o [i \in 1..(total - n - 9) |-> 0] \o
      <<0, 0, 0, 0, (bits \div 16777216) % 256, (bits \div 65536) % 256,
        (bits \div 256) % 256, bits % 256>>

\* C19: the blocks yielded so far, read as big-endian bytes, are the
\* beginning of: the message, one 0x80, zeroes, 8 * n on 64 bits
\* big-endian, of total length the smallest multiple of 64 that is at
\* least n + 9; they are all of it once next() has returned None, and
\* their number is then what size_hint reports: n div 64 plus one block if
\* n mod 64 <= 55, plus two if n mod 64 >= 56.
C19_MDPaddingYieldsMessageBitLength ==
  md_pc = "iterating" =>
    LET n == Len(message)
        yielded == md_yielded_bytes(Len(md_items))
        hint == MDPadding512u32_size_hint(md_self)
    IN  /\ Len(yielded) = 64 * md_yielded_blocks
        /\ Len(yielded) <= Len(md_expected)
        /\ yielded = SubSeq(md_expected, 1, Len(yielded))
        /\ hint[1] = n \div 64 + (IF n % 64 <= 55 THEN 1 ELSE 2)
        /\ hint[2] = Some(hint[1])
        /\ md_nones > 0 =>
             /\ yielded = md_expected
             /\ md_yielded_blocks = hint[1]
             /\ Len(yielded) % 64 = 0
             /\ Len(yielded) >= n + 9
             /\ Len(yielded) - 64 < n + 9

\* A message of 56 bytes was yielded in two blocks, the 0x80 in the first
\* and the bit length 448 in the second, then came None.
C19_Witness ==
  /\ md_pc = "iterating"
  /\ Len(message) = 56
  /\ Len(md_items) = 3
  /\ md_items[1].tag = "Some"
  /\ md_items[1].val[15] = <<32768, 0>>
  /\ md_items[2].tag = "Some"
  /\ md_items[2].val[16] = <<0, 448>>
  /\ md_items[3] = None
  /\ MDPadding512u32_size_hint(md_self)[1] = 2

(***************************************************************************)
(* Properties of CTR                                                       *)
(***************************************************************************)

\* C5: whatever the input (a whole number of blocks or not), the IV and
\* the keyed cipher, ctr_128u8 applied to its own output, with the same
\* keyed cipher and IV, returns the input.
C5_CtrIsItsOwnInverse ==
  (ctr_pass = 2 /\ ctr_pc = "ctr_returned") => ctr_output = message

\* 33 bytes, which the first pass changed, have come back.
C5_Witness ==
  /\ ctr_pass = 2
  /\ ctr_pc = "ctr_returned"
  /\ Len(message) = 33
  /\ ctr_input # message
  /\ ctr_output = message

\* The successor of a counter read as a big-endian 128-bit integer, the
\* carry out of byte 0 dropped.  `index` counts from 1.
RECURSIVE be_successor(_, _)
be_successor(block, index) ==
  IF index = 0 THEN block
  ELSE IF block[index] = 255
    THEN be_successor([block EXCEPT ![index] = 0], index - 1)
  ELSE [block EXCEPT ![index] = block[index] + 1]

\* The big-endian encoding of (block + n) mod 2^128.
RECURSIVE be_wrapping_add(_, _)
be_wrapping_add(block, n) ==
  IF n = 0 THEN block
  ELSE be_successor(be_wrapping_add(block, n - 1), BLOCK_LEN_128_U8)

\* C8: the counter block encrypted for chunk i (from 0) is the big-endian
\* encoding of (IV + i) mod 2^128; the counter that follows the all-0xFF
\* counter is therefore the all-zero counter.
C8_CounterIsWrappingBigEndian ==
  \A i \in 1..Len(ctr_counters) :
    ctr_counters[i] = be_wrapping_add(init_vector, i - 1)

\* C9: what ctr_128u8 returns is as long as its input; byte j is the input
\* byte XOR byte (j mod 16) of the keyed cipher of the counter of chunk
\* (j div 16); the keyed cipher was called once per chunk, that is
\* ceil(len / 16) times, on the IV first and then on what next_counter left
\* behind; only the last chunk can leave bytes of its pad unused.
C9_CtrOutputIsInputXorPad ==
  ctr_pc = "ctr_returned" =>
    LET len == Len(ctr_input)
        chunks == (len + BLOCK_LEN_128_U8 - 1) \div BLOCK_LEN_128_U8
    IN  /\ Len(ctr_output) = len
        /\ Len(ctr_counters) = chunks
        /\ \A c \in 1..chunks :
             /\ ctr_counters[c] =
                  IF c = 1 THEN init_vector
                  ELSE next_counter_loop(ctr_counters[c - 1],
                                         BLOCK_LEN_128_U8 - 1, 0).counter
             /\ LET one_time_pad == keyed_cipher(keyed, ctr_counters[c])
                    first == BLOCK_LEN_128_U8 * (c - 1)
                IN  \A b \in 1..BLOCK_LEN_128_U8 :
                      first + b <= len =>
                        ctr_output[first + b] =
                          xor(ctr_input[first + b], one_time_pad[b])

\* ctr_128u8 has returned 17 bytes made with two counters, one byte of the
\* second pad used.
C9_Witness ==
  /\ ctr_pc = "ctr_returned"
  /\ ctr_pass = 1
  /\ Len(ctr_input) = 17
  /\ Len(ctr_output) = 17
  /\ Len(ctr_counters) = 2
  /\ ctr_output # ctr_input

\* C30: the loop of next_counter ends for every counter, the all-0xFF one
\* included, after visiting at most 17 bytes, and so ctr_128u8 returns for
\* every input: the loop body never runs an 18th time in a call, a call in
\* its loop gets out of it with the counter next_counter computes, and
\* ctr_128u8 once called returns.
C30_CtrTerminates ==
  /\ [](/\ nc_visited <= BLOCK_LEN_128_U8 + 1
        /\ nc_pc = "pad" =>
             LET loop == next_counter_loop(nc_old_counter,
                                           BLOCK_LEN_128_U8 - 1, 0)
             IN  /\ ctr_counter = loop.counter
                 /\ nc_visited = loop.visited)
  /\ (nc_pc = "loop") ~> (nc_pc = "pad")
  /\ (ctr_pc = "ctr") ~> (ctr_pc = "ctr_returned")

\* C30 witness: called on the all-0xFF counter, next_counter has left its
\* loop after 17 bytes, with the counter 00 .. 00 01.
C30_Witness ==
  /\ nc_pc = "pad"
  /\ nc_old_counter = OnesBlock
  /\ nc_visited = 17
  /\ nc_index = 15
  /\ ctr_counter = [ZeroBlock EXCEPT ![16] = 1]

================================================================
